---- MODULE Spec2Model ----
(***************************************************************************)
(* A model of the caching core of analyze-it-trends-mcp-server:            *)
(* utils/cache_manager.py (CacheManager: file backend, remote key-value    *)
(* backend, TTL expiry, pattern invalidation, fetch-or-compute).           *)
(*                                                                         *)
(* Time is counted in ticks of 1/TicksPerSec second, so that the           *)
(* truncation int(time.time() + ttl) of set and the comparison             *)
(* expires_at < time.time() of get are computed as the code computes them. *)
(* Cache keys, file names and glob patterns are sequences of one-character *)
(* strings, so that _file_path and the glob match are computed too.        *)
(***************************************************************************)
EXTENDS Integers, Sequences, FiniteSets, TLC

\* ------------------------------------------------------------------ bounds
\* Clock resolution: ticks per second.
TicksPerSec == 3
\* The clock stops advancing at this tick.
MaxTime == 4
\* The store-wide default ttl in seconds (config "ttl", 3600 in the program).
TtlDefaultSecs == 1
\* The number of cache operations (get, set, invalidate, and the get and the
\* set of a fetch-or-compute call) one behaviour performs.
MaxOps == 2
\* The number of backend faults (a failing read, write, scan or remove) one
\* behaviour injects.
MaxFaults == 1

\* ------------------------------------------------------------- input sets
\* Python's None, as a cached or produced value.
None == "None"
\* A value json.dumps cannot serialise.
NonSerial == "nonserial"
\* The outcome of a producer that raises.
Raise == "raise"
\* Values a set or a producer may be handed; "zero" is a falsy non-None value
\* (0, [], {} or false).
Storable == {"v1", "zero", None}
SetValues == {"v1", "zero", NonSerial}
ProducerValues == {"v1", "zero", None, NonSerial}

\* ttl: Optional[int], as a sequence of at most one element (<<>> is None).
NoTtl == <<>>
TtlArgs == {NoTtl, <<0>>, <<2>>}

KeyAB == <<"a", ":", "b">>
KeyA_B == <<"a", "_", "b">>
KeyCD == <<"c", ":", "d">>
Keys == {KeyAB, KeyA_B, KeyCD}

Patterns == {<<"a", ":", "*">>, <<"a", "_", "*">>, <<"*">>, <<"*", "d">>}

Callers == {"c1", "c2"}

\* The keys fetch-or-compute calls are made with.
CallKeys == {KeyAB, KeyCD}

\* ------------------------------------------------------------ file names
\* key.replace("/", "_").replace(":", "_"), then the ".json" suffix (kept
\* implicit: every file of the directory the cache writes carries it).
SafeChar(ch) == IF ch = "/" \/ ch = ":" THEN "_" ELSE ch

_file_path(key) == [i \in 1..Len(key) |-> SafeChar(key[i])]

FileNames == {_file_path(k) : k \in Keys}

\* fnmatch of glob.glob and MATCH of the remote SCAN, for patterns made of
\* literal characters and "*".
RECURSIVE GlobMatch(_, _)
GlobMatch(pat, str) ==
    IF pat = <<>> THEN str = <<>>
    ELSE IF Head(pat) = "*"
         THEN GlobMatch(Tail(pat), str)
              \/ (str # <<>> /\ GlobMatch(pat, Tail(str)))
         ELSE str # <<>> /\ Head(str) = Head(pat)
              /\ GlobMatch(Tail(pat), Tail(str))

\* ---------------------------------------------------------------- entries
\* The content of one file of the cache directory, or of one remote key.
\*   kind "missing": no such file / key
\*   kind "corrupt": the content is unreadable or is not the JSON of an object
\*   kind "json":    {"value": value, "expires_at": expires_at}; has_exp FALSE
\*                   is an absent or null expires_at
\* deadline is the remote backend's native expiry (a tick), 0 for files.
Missing == [kind |-> "missing", value |-> None, has_exp |-> FALSE, expires_at |-> 0, deadline |-> 0]
Corrupt == [kind |-> "corrupt", value |-> None, has_exp |-> FALSE, expires_at |-> 0, deadline |-> 0]

Payload(value, expires_at, deadline) ==
    [kind |-> "json", value |-> value, has_exp |-> TRUE, expires_at |-> expires_at, deadline |-> deadline]

\* ttl_use = int(ttl or self.ttl_default)
TtlUse(ttl) == IF ttl = NoTtl \/ ttl[1] = 0 THEN TtlDefaultSecs ELSE ttl[1]

\* expires_at = int(time.time() + ttl_use), in whole seconds
ExpiresAt(t, ttl) == (t + TtlUse(ttl) * TicksPerSec) \div TicksPerSec

\* A staleness test with <= for <: an entry is stale from the very second it
\* expires in.
StaleInclusive(e, t) == e.has_exp /\ e.expires_at # 0 /\ e.expires_at * TicksPerSec <= t

\* obj.get("expires_at") and obj["expires_at"] < time.time()
Stale(e, t) == e.has_exp /\ e.expires_at # 0 /\ e.expires_at * TicksPerSec < t

\* The remote store drops a key once its native TTL has passed.
RemoteLive(e, t) == e.kind # "missing" /\ ~(t > e.deadline)

\* A decode that leaves the staleness test out: entries never expire.
DecodeNoExpiry(e, t) == IF e.kind # "json" THEN None ELSE e.value

\* json.loads(raw), the staleness test and obj.get("value"); every exception
\* is caught and gives None.
Decode(e, t) ==
    IF e.kind # "json" THEN None
    ELSE IF Stale(e, t) THEN None
    ELSE e.value

\* --------------------------------------------------------- CacheManager
\* A configuration: enabled (config "enabled") and redis (self._redis is not
\* None: storage "redis" with a reachable url).
Configs == [enabled : BOOLEAN, redis : BOOLEAN]

\* A store: the cache directory (file name -> content) and the remote
\* key-value service (key -> content).
EmptyStore == [files |-> [f \in FileNames |-> Missing], rdb |-> [k \in Keys |-> Missing]]

\* A get with no except clause: the backend's exception reaches the caller.
GetExceptRaises == Raise

\* "except Exception: return None" of get (lines 46-47 and 57-58).
GetExcept == None

\* get, remote branch: raw = self._redis.get(key); json.loads; staleness.
\* fault: the round trip raises.
GetRemote(st, key, t, fault) ==
    IF fault THEN GetExcept
    ELSE IF ~RemoteLive(st.rdb[key], t) THEN None
    ELSE IF st.rdb[key].kind = "corrupt" THEN GetExcept
    ELSE Decode(st.rdb[key], t)

\* get, file branch: path.exists(); json.loads(path.read_text()); staleness.
\* fault: read_text raises.
GetFile(st, key, t, fault) ==
    LET e == st.files[_file_path(key)]
    IN  IF e.kind = "missing" THEN None
        ELSE IF fault \/ e.kind = "corrupt" THEN GetExcept
        ELSE Decode(e, t)

\* CacheManager.get
CacheGet(cfg, st, key, t, fault) ==
    IF ~cfg.enabled THEN None
    ELSE IF cfg.redis THEN GetRemote(st, key, t, fault)
    ELSE GetFile(st, key, t, fault)

\* A get that evicts what it cannot serve: the file or remote key of a stale
\* or unreadable entry is removed.
GetStoreEvict(cfg, st, key, t, fault) ==
    IF ~cfg.enabled \/ fault THEN st
    ELSE IF cfg.redis
         THEN IF st.rdb[key].kind = "corrupt" \/ Stale(st.rdb[key], t)
              THEN [st EXCEPT !.rdb[key] = Missing] ELSE st
         ELSE IF st.files[_file_path(key)].kind = "corrupt" \/ Stale(st.files[_file_path(key)], t)
              THEN [st EXCEPT !.files[_file_path(key)] = Missing] ELSE st

\* The store a get leaves: get only reads (self._redis.get, path.exists,
\* path.read_text); no branch of it writes or removes anything.
GetStore(cfg, st, key, t, fault) == st

\* Outcomes of path.write_text: "ok"; "open": the file could not be opened
\* and is left as it was; "partial": the file was truncated and the write
\* then failed, leaving content that is not JSON.
FileFaults == {"ok", "open", "partial"}

\* A file write that creates the file but never replaces one that holds an
\* entry (open mode "x" for "w").
SetFileKeep(st, key, value, ttl, t, ffault) ==
    IF value = NonSerial \/ ffault = "open" \/ st.files[_file_path(key)].kind = "json" THEN st
    ELSE IF ffault = "partial"
         THEN [st EXCEPT !.files[_file_path(key)] = Corrupt]
         ELSE [st EXCEPT !.files[_file_path(key)] = Payload(value, ExpiresAt(t, ttl), 0)]

\* set, file branch: path.write_text(json.dumps(payload)); exceptions pass.
SetFile(st, key, value, ttl, t, ffault) ==
    IF value = NonSerial \/ ffault = "open" THEN st
    ELSE IF ffault = "partial"
         THEN [st EXCEPT !.files[_file_path(key)] = Corrupt]
         ELSE [st EXCEPT !.files[_file_path(key)] = Payload(value, ExpiresAt(t, ttl), 0)]

\* set, remote branch: self._redis.set(key, json.dumps(payload), ex=ttl_use)
\* and return; on an exception fall through to the file branch.
SetRemote(st, key, value, ttl, t, rfault, ffault) ==
    IF value = NonSerial \/ rfault
    THEN SetFile(st, key, value, ttl, t, ffault)
    ELSE [st EXCEPT !.rdb[key] =
              Payload(value, ExpiresAt(t, ttl), t + TtlUse(ttl) * TicksPerSec)]

\* A set without the "if not self.enabled: return" guard.
CacheSetUnguarded(cfg, st, key, value, ttl, t, rfault, ffault) ==
    IF cfg.redis THEN SetRemote(st, key, value, ttl, t, rfault, ffault)
    ELSE SetFile(st, key, value, ttl, t, ffault)

\* CacheManager.set
CacheSet(cfg, st, key, value, ttl, t, rfault, ffault) ==
    IF ~cfg.enabled THEN st
    ELSE IF cfg.redis THEN SetRemote(st, key, value, ttl, t, rfault, ffault)
    ELSE SetFile(st, key, value, ttl, t, ffault)

\* Whether the set persisted its payload in the backend get reads.
SetStored(cfg, value, rfault, ffault) ==
    /\ cfg.enabled
    /\ value # NonSerial
    /\ IF cfg.redis THEN ~rfault ELSE ffault = "ok"

\* What a set call gives its caller: "returned" always, every exception of
\* the backend and of json.dumps being caught (lines 70-71 and 75-76).
SetOutcome(cfg, value, rfault, ffault) == "returned"

\* invalidate, remote branch: SCAN with match=pattern, DELETE, count.
RemoteMatches(st, pat, t) ==
    {k \in Keys : RemoteLive(st.rdb[k], t) /\ GlobMatch(pat, k)}

\* invalidate, file branch: glob.glob(dir / f"{pattern}.json").
FileMatches(st, pat) ==
    {f \in FileNames : st.files[f].kind # "missing" /\ GlobMatch(pat, f)}

\* CacheManager.invalidate: the store it leaves. rfault: the remote scan
\* raises; rmfail: the files os.remove fails on.
InvalidateStore(cfg, st, pat, t, rfault, rmfail) ==
    LET rk == IF cfg.redis /\ ~rfault THEN RemoteMatches(st, pat, t) ELSE {}
        fk == FileMatches(st, pat) \ rmfail
    IN  [files |-> [f \in FileNames |-> IF f \in fk THEN Missing ELSE st.files[f]],
         rdb |-> [k \in Keys |-> IF k \in rk THEN Missing ELSE st.rdb[k]]]

\* CacheManager.invalidate: the count it returns.
InvalidateCount(cfg, st, pat, t, rfault, rmfail) ==
    LET rk == IF cfg.redis /\ ~rfault THEN RemoteMatches(st, pat, t) ELSE {}
        fk == FileMatches(st, pat) \ rmfail
    IN  Cardinality(rk) + Cardinality(fk)

\* ------------------------------------------------------------------ state
VARIABLES
    cfg,     \* the CacheManager's configuration, fixed at construction
    now,     \* time.time(), in ticks
    store,   \* the cache directory and the remote service
    call,    \* per caller: its get_or_fetch / get_or_fetch_async call
    lastw,   \* history: the most recent write (set or invalidate) and its arguments
    lastr,   \* history: the most recent stand-alone get and its result
    wrote,   \* history: per key, the values a set of that key has stored
    twin,    \* a second CacheManager, on the file backend, and its last get
    callttl, \* the ttl the handlers pass to fetch-or-compute: the configured one
    ops,     \* the number of cache operations performed so far
    faults,  \* the number of backend faults injected so far
    req      \* the tool request being handled, or the inputs of a helper call

vars == <<cfg, now, store, call, lastw, lastr, wrote, twin, callttl, ops, faults, req>>

\* The variables of the cache.
cachevars == <<cfg, now, store, call, lastw, lastr, wrote, twin, callttl, ops, faults>>

\* No tool request in progress.
NoReq == [kind |-> "none"]

\* A caller with no call in progress.
\* racing is history: the call made its get while the other caller's call for
\* the same key was between its get and its set, or the other's did so.
Idle == [pc |-> "idle", key |-> <<>>, ttl |-> NoTtl, cached |-> None, invoked |-> 0,
         value |-> None, setcalls |-> 0, ret |-> None, racing |-> FALSE]

\* n numbers the writes.
NoWrite == [op |-> "none", n |-> 0, key |-> <<>>, value |-> None, ttl |-> NoTtl, t |-> 0,
            stored |-> FALSE, outcome |-> "returned", by |-> "-", count |-> 0]

\* n is the number of the write the get followed.
NoRead == [op |-> "none", n |-> 0, key |-> <<>>, ret |-> None, fault |-> FALSE]

\* A file an earlier run of the program left in the cache directory, written
\* without an expiry ("expires_at": null).
LegacyStore ==
    [EmptyStore EXCEPT !.files[_file_path(KeyAB)] =
        [kind |-> "json", value |-> "v1", has_exp |-> FALSE, expires_at |-> 0, deadline |-> 0]]

\* CacheManager.__init__, and the directory it finds.
InitCache ==
    /\ cfg \in Configs
    /\ now = 0
    /\ store \in {EmptyStore, LegacyStore}
    /\ call = [c \in Callers |-> Idle]
    /\ lastw = NoWrite
    /\ lastr = NoRead
    /\ wrote = [k \in Keys |-> IF store.files[_file_path(k)].kind = "json"
                                THEN {store.files[_file_path(k)].value} ELSE {}]
    /\ twin = [store |-> EmptyStore, ret |-> None]
    /\ callttl \in TtlArgs
    /\ ops = 0
    /\ faults = 0

\* The server after start-up: the cache constructed, no request received.
Init == InitCache /\ req = NoReq

\* The same, for behaviours with no fetch-or-compute call.
InitStore == Init /\ callttl = NoTtl

\* The faults of one set: "remote": the remote write raises and the file
\* write that follows succeeds; "open" and "partial": the file write fails
\* so (with the remote backend: after the remote write has raised).
SetFaults == {"none", "remote", "open", "partial"}

RemoteFault(fault) == fault # "none"

FileFault(fault) == IF fault \in {"open", "partial"} THEN fault ELSE "ok"

\* A fault is injected only where the configuration has the backend for it
\* and while the behaviour's budget lasts.
MayFault(fault) ==
    fault # "none" => (faults < MaxFaults /\ cfg.enabled /\ (fault = "remote" => cfg.redis))

\* A value json.dumps raises on is a fault of the set it is handed to, and is
\* the only one of that set.
MayFail(value, fault) ==
    IF value = NonSerial THEN fault = "none" /\ faults < MaxFaults ELSE MayFault(fault)

Injected(value, fault) == IF value = NonSerial \/ fault # "none" THEN faults + 1 ELSE faults

\* wrote, after a set of key with value.
Wrote(key, value, stored) ==
    IF stored /\ value # None THEN [wrote EXCEPT ![key] = @ \cup {value}] ELSE wrote

\* The clock advances.
Tick ==
    /\ now < MaxTime
    /\ now' = now + 1
    /\ UNCHANGED <<req, cfg, callttl, twin, store, call, lastw, lastr, wrote, ops, faults>>

\* A stand-alone cache.get(key). fault: the backend read raises.
DoGet(key, fault) ==
    /\ ops < MaxOps
    /\ fault => (faults < MaxFaults /\ cfg.enabled)
    /\ lastr' = [op |-> "get", n |-> lastw.n, key |-> key, ret |-> CacheGet(cfg, store, key, now, fault),
                 fault |-> fault]
    /\ ops' = ops + 1
    /\ faults' = IF fault THEN faults + 1 ELSE faults
    /\ store' = GetStore(cfg, store, key, now, fault)
    /\ UNCHANGED <<req, cfg, callttl, twin, now, call, lastw, wrote>>

\* A stand-alone cache.set(key, value, ttl).
DoSet(key, value, ttl, fault) ==
    /\ ops < MaxOps
    /\ MayFail(value, fault)
    /\ store' = CacheSet(cfg, store, key, value, ttl, now, RemoteFault(fault), FileFault(fault))
    /\ lastw' = [op |-> "set", n |-> lastw.n + 1, key |-> key, value |-> value, ttl |-> ttl, t |-> now,
                 stored |-> SetStored(cfg, value, RemoteFault(fault), FileFault(fault)),
                 outcome |-> SetOutcome(cfg, value, RemoteFault(fault), FileFault(fault)),
                 by |-> "-", count |-> 0]
    /\ wrote' = Wrote(key, value, SetStored(cfg, value, RemoteFault(fault), FileFault(fault)))
    /\ ops' = ops + 1
    /\ faults' = Injected(value, fault)
    /\ UNCHANGED <<req, cfg, callttl, twin, now, call, lastr>>

\* cache.invalidate(pattern). rfault: the remote scan raises; rmfail: the
\* files os.remove fails on.
DoInvalidate(pat, rfault, rmfail) ==
    /\ ops < MaxOps
    /\ (rfault \/ rmfail # {}) => faults < MaxFaults
    /\ rfault => cfg.redis
    /\ rmfail \subseteq FileMatches(store, pat)
    /\ store' = InvalidateStore(cfg, store, pat, now, rfault, rmfail)
    /\ lastw' = [op |-> "invalidate", n |-> lastw.n + 1, key |-> pat, value |-> None, ttl |-> NoTtl, t |-> now,
                 stored |-> FALSE, outcome |-> "returned", by |-> "-",
                 count |-> InvalidateCount(cfg, store, pat, now, rfault, rmfail)]
    /\ ops' = ops + 1
    /\ faults' = IF rfault \/ rmfail # {} THEN faults + 1 ELSE faults
    /\ UNCHANGED <<req, cfg, callttl, twin, now, call, lastr, wrote>>

\* Callers are interchangeable: "c2" makes its first call after "c1" has made
\* one.
FirstCaller(c) == c = "c2" => call["c1"].pc # "idle"

\* A miss test by truthiness ("if not cached") for "cached is not None".
IsMissFalsy(cached) == cached = None \/ cached = "zero"

\* Whether get_or_fetch goes on to its producer: "cached is not None" fails.
IsMiss(cached) == cached = None

\* The producer invocations of a call whose get returned cached.
Invocations(cached) == IF IsMiss(cached) THEN 1 ELSE 0

\* A handler's call (server.py passes ttl=CONFIG["cache"]["ttl"] every time):
\* get_or_fetch / get_or_fetch_async up to the producer: cached = self.get(key);
\* return it if it is not None, else call the producer. The two have the same
\* body; of the behaviours here, those of the synchronous one are the ones in
\* which no other step of the program runs between its get and its set.
CallStart(c, key, fault) ==
    /\ ops < MaxOps
    /\ call[c].pc # "fetching"
    /\ FirstCaller(c)
    /\ fault => (faults < MaxFaults /\ cfg.enabled)
    /\ LET cached == CacheGet(cfg, store, key, now, fault)
           overlap == /\ IsMiss(cached)
                      /\ \E d \in Callers \ {c} : call[d].pc = "fetching" /\ call[d].key = key
       IN  call' = [d \in Callers |->
                IF d = c
                THEN [pc |-> IF IsMiss(cached) THEN "fetching" ELSE "done",
                      key |-> key, ttl |-> callttl, cached |-> cached,
                      invoked |-> Invocations(cached),
                      value |-> None, setcalls |-> 0,
                      ret |-> IF IsMiss(cached) THEN None ELSE cached,
                      racing |-> overlap]
                ELSE IF overlap THEN [call[d] EXCEPT !.racing = TRUE] ELSE call[d]]
    /\ ops' = ops + 1
    /\ faults' = IF fault THEN faults + 1 ELSE faults
    /\ store' = GetStore(cfg, store, key, now, fault)
    /\ UNCHANGED <<req, cfg, callttl, twin, now, lastw, lastr, wrote>>

\* The producer returns value: self.set(key, value, ttl=ttl); return value.
CallStore(c, value, fault) ==
    /\ call[c].pc = "fetching"
    /\ MayFail(value, fault)
    /\ store' = CacheSet(cfg, store, call[c].key, value, call[c].ttl, now,
                         RemoteFault(fault), FileFault(fault))
    /\ call' = [call EXCEPT ![c].pc = "done", ![c].value = value,
                            ![c].setcalls = 1, ![c].ret = value]
    /\ lastw' = [op |-> "set", n |-> lastw.n + 1, key |-> call[c].key, value |-> value,
                 ttl |-> call[c].ttl, t |-> now,
                 stored |-> SetStored(cfg, value, RemoteFault(fault), FileFault(fault)),
                 outcome |-> SetOutcome(cfg, value, RemoteFault(fault), FileFault(fault)),
                 by |-> c, count |-> 0]
    /\ wrote' = Wrote(call[c].key, value,
                      SetStored(cfg, value, RemoteFault(fault), FileFault(fault)))
    /\ faults' = Injected(value, fault)
    /\ UNCHANGED <<req, cfg, callttl, twin, now, lastr, ops>>

\* A fetch-or-compute that caches the failure: it stores None under the key
\* before it lets the producer's exception out.
StoreOnRaiseNone(conf, st, key, ttl, t) == CacheSet(conf, st, key, None, ttl, t, FALSE, "ok")

\* The store a call leaves whose producer raises: "value = fetch_func()" is
\* not in a try block, so the exception leaves before self.set is reached.
StoreOnRaise(conf, st, key, ttl, t) == st

\* The producer raises: the exception leaves get_or_fetch before set.
CallRaise(c) ==
    /\ call[c].pc = "fetching"
    /\ call' = [call EXCEPT ![c].pc = "raised", ![c].value = Raise, ![c].ret = Raise]
    /\ store' = StoreOnRaise(cfg, store, call[c].key, call[c].ttl, now)
    /\ UNCHANGED <<req, cfg, callttl, twin, now, lastw, lastr, wrote, ops, faults>>

\* The stand-alone operations of the store.
NextStore ==
    \/ Tick
    \/ \E k \in Keys, f \in BOOLEAN : DoGet(k, f)
    \/ \E k \in Keys, v \in SetValues, ttl \in TtlArgs, f \in SetFaults : DoSet(k, v, ttl, f)
    \/ \E p \in Patterns, rf \in BOOLEAN, rm \in SUBSET FileNames : DoInvalidate(p, rf, rm)

\* Fetch-or-compute calls, running concurrently.
NextCalls ==
    \/ Tick
    \/ \E c \in Callers, k \in CallKeys, f \in BOOLEAN : CallStart(c, k, f)
    \/ \E c \in Callers, v \in ProducerValues, f \in SetFaults : CallStore(c, v, f)
    \/ \E c \in Callers : CallRaise(c)

Next == NextStore \/ NextCalls

\* The whole program.
Spec == Init /\ [][Next]_vars

\* The program with caching disabled by configuration.
InitDisabled == Init /\ ~cfg.enabled

SpecDisabled == InitDisabled /\ [][Next]_vars

\* The store under stand-alone get, set and invalidate.
SpecStore == InitStore /\ [][NextStore]_vars

\* The store under concurrent fetch-or-compute calls.
SpecCalls == Init /\ [][NextCalls]_vars

\* ------------------------------------------------- two managers, one input
\* A CacheManager on the file backend (storage "file").
FileCfg == [enabled |-> TRUE, redis |-> FALSE]

\* A CacheManager on the remote backend (storage "redis", url reachable).
RedisCfg == [enabled |-> TRUE, redis |-> TRUE]

\* Two enabled managers, the first on the remote backend (cfg, store), the
\* second on the file backend (twin.store), each with an empty backend.
InitEquiv ==
    /\ Init
    /\ cfg = RedisCfg
    /\ store = EmptyStore
    /\ callttl = NoTtl

\* Both managers are handed set(key, value, ttl) at the same time. fault
\* "remote": the remote write of the first raises.
EqSet(key, value, ttl, fault) ==
    /\ ops < MaxOps
    /\ fault \in {"none", "remote"}
    /\ MayFail(value, fault)
    /\ store' = CacheSet(cfg, store, key, value, ttl, now, RemoteFault(fault), "ok")
    /\ twin' = [twin EXCEPT !.store = CacheSet(FileCfg, twin.store, key, value, ttl, now, FALSE, "ok")]
    /\ lastw' = [op |-> "set", n |-> lastw.n + 1, key |-> key, value |-> value, ttl |-> ttl, t |-> now,
                 stored |-> SetStored(cfg, value, RemoteFault(fault), "ok"),
                 outcome |-> SetOutcome(cfg, value, RemoteFault(fault), "ok"),
                 by |-> "-", count |-> 0]
    /\ ops' = ops + 1
    /\ faults' = Injected(value, fault)
    /\ UNCHANGED <<req, cfg, callttl, now, call, lastr, wrote>>

\* Both managers are asked get(key) at the same time.
EqGet(key) ==
    /\ ops < MaxOps
    /\ lastr' = [op |-> "get", n |-> lastw.n, key |-> key,
                 ret |-> CacheGet(cfg, store, key, now, FALSE), fault |-> FALSE]
    /\ twin' = [twin EXCEPT !.ret = CacheGet(FileCfg, twin.store, key, now, FALSE)]
    /\ ops' = ops + 1
    /\ UNCHANGED <<req, cfg, callttl, now, store, call, lastw, wrote, faults>>

\* Clock advances that leave room for one more operation.
EqTick == ops < MaxOps /\ Tick

NextEquiv ==
    \/ EqTick
    \/ \E k \in Keys, v \in SetValues, ttl \in TtlArgs, f \in SetFaults : EqSet(k, v, ttl, f)
    \/ \E k \in Keys : EqGet(k)

\* The two managers under the same sets, gets and clock advances.
SpecEquiv == InitEquiv /\ [][NextEquiv]_vars

\* ------------------------------------------------------------- properties
\* The entry of the backend get reads for key.
RawEntry(st, key) == IF cfg.redis THEN st.rdb[key] ELSE st.files[_file_path(key)]

\* C1: on an enabled cache, a fetch-or-compute call whose get yielded a value
\* returns that value without invoking its producer; a call whose get yielded
\* nothing has invoked its producer exactly once, has called
\* set(key, result, ttl) with its own key and ttl and the producer's result, and
\* returns that result.
C1_FetchOrCompute ==
    cfg.enabled =>
      \A c \in Callers :
        /\ (call[c].pc = "done" /\ call[c].cached # None) =>
              /\ call[c].ret = call[c].cached
              /\ call[c].invoked = 0
              /\ call[c].setcalls = 0
        /\ (call[c].pc = "done" /\ call[c].cached = None) =>
              /\ call[c].invoked = 1
              /\ call[c].setcalls = 1
              /\ call[c].ret = call[c].value
        /\ (lastw.by = c /\ call[c].setcalls = 1) =>
              /\ lastw.op = "set"
              /\ lastw.key = call[c].key
              /\ lastw.value = call[c].value
              /\ lastw.ttl = call[c].ttl

\* One call has missed, produced and stored, and another has been served that
\* value from the cache.
C1_Witness ==
    /\ cfg.enabled
    /\ \E c \in Callers, d \in Callers :
          /\ call[c].pc = "done" /\ call[c].cached = None /\ call[c].invoked = 1
          /\ call[c].setcalls = 1 /\ call[c].ret = "v1"
          /\ call[d].pc = "done" /\ call[d].cached = "v1" /\ call[d].invoked = 0
          /\ call[d].key = call[c].key

\* The step is the get of a fetch-or-compute call by c for key, with no read
\* fault.
IsCallStart(c, key) ==
    /\ call[c].pc # "fetching"
    /\ ops' = ops + 1
    /\ faults' = faults
    /\ call'[c] # call[c]
    /\ call'[c].key = key
    /\ call'[c].setcalls = 0
    /\ call'[c].pc \in {"fetching", "done"}

\* The most recent write is the set of a fetch-or-compute call that stored a
\* value a later get can tell from a miss.
LastWriteIsFetched ==
    /\ lastw.op = "set"
    /\ lastw.by # "-"
    /\ lastw.stored
    /\ lastw.value # None

\* C2 as stated: a get_or_fetch call for the key of the call that has just
\* stored its result, made before the ttl has elapsed since that write, is
\* served from the cache and invokes no producer.
C2_Original ==
    [][\A c \in Callers :
          (/\ cfg.enabled
           /\ LastWriteIsFetched
           /\ IsCallStart(c, lastw.key)
           /\ now < lastw.t + TtlUse(lastw.ttl) * TicksPerSec)
          => (/\ call'[c].pc = "done"
              /\ call'[c].invoked = 0
              /\ call'[c].ret = lastw.value)]_vars

\* C2, amended: the same, for a second call made no later than the stored
\* expires_at, which is int(write time + ttl): the sum cut to whole seconds.
C2_SecondCallHits ==
    [][\A c \in Callers :
          (/\ cfg.enabled
           /\ LastWriteIsFetched
           /\ IsCallStart(c, lastw.key)
           /\ now <= ExpiresAt(lastw.t, lastw.ttl) * TicksPerSec)
          => (/\ call'[c].pc = "done"
              /\ call'[c].invoked = 0
              /\ call'[c].ret = lastw.value)]_vars

\* The caller whose call stored the entry has called again for the same key,
\* later, and has been served from the cache.
C2_Witness ==
    /\ cfg.enabled
    /\ LastWriteIsFetched
    /\ now > lastw.t
    /\ \E c \in Callers :
          /\ lastw.by = c
          /\ call[c].pc = "done"
          /\ call[c].key = lastw.key
          /\ call[c].cached = lastw.value
          /\ call[c].invoked = 0

\* C3: two fetch-or-compute calls for one key that both made their get before
\* either made its set have both invoked their producer; each that has
\* returned has called set and returned its own producer's value; and once
\* both have returned, the entry of the key is the one written by the set that
\* ran last.
C3_LastWriterWins ==
    \A c \in Callers : \A d \in Callers \ {c} :
      (call[c].racing /\ call[d].racing) =>
        /\ call[c].key = call[d].key
        /\ call[c].cached = None
        /\ call[c].invoked = 1
        /\ call[c].pc = "done" => (call[c].setcalls = 1 /\ call[c].ret = call[c].value)
        /\ (call[c].pc = "done" /\ call[d].pc = "done" /\ lastw.by = c /\ lastw.stored) =>
              /\ RawEntry(store, call[c].key).kind = "json"
              /\ RawEntry(store, call[c].key).value = call[c].value

\* Both racing calls have returned, with different values, and the entry holds
\* the value of the one that wrote last.
C3_Witness ==
    \E c \in Callers : \E d \in Callers \ {c} :
      /\ cfg.enabled
      /\ call[c].racing /\ call[d].racing
      /\ call[c].pc = "done" /\ call[d].pc = "done"
      /\ call[c].ret = "v1" /\ call[d].ret = "zero"
      /\ lastw.by = c /\ lastw.stored
      /\ RawEntry(store, call[c].key).value = "v1"

\* The most recent write is a set that stored its payload.
LastWriteStored == lastw.op = "set" /\ lastw.stored

\* What get(key) returns now when its backend read does not fail.
GetNow(key) == CacheGet(cfg, store, key, now, FALSE)

\* C4 as stated: while set(key, v, ttl) is the most recent write, get(key)
\* returns v exactly when write time + ttl is not yet past, and absent when it
\* is.
C4_Original ==
    LastWriteStored =>
        GetNow(lastw.key) =
            IF now <= lastw.t + TtlUse(lastw.ttl) * TicksPerSec THEN lastw.value ELSE None

\* C4, amended: while set(key, v, ttl) is the most recent write, get(key)
\* returns v exactly when the stored expires_at, int(write time + ttl) (the sum
\* cut to whole seconds), is not earlier than the current time, and absent when
\* it is earlier; an entry with no expires_at is returned at every time.
C4_LazyExpiry ==
    /\ LastWriteStored =>
          GetNow(lastw.key) =
              IF now <= ExpiresAt(lastw.t, lastw.ttl) * TicksPerSec THEN lastw.value ELSE None
    /\ \A k \in Keys :
          (cfg.enabled /\ RawEntry(store, k).kind = "json" /\ ~RawEntry(store, k).has_exp)
              => GetNow(k) = RawEntry(store, k).value

\* A get that followed the set of "v1" has returned absent: the entry, still in
\* the backend, has expired.
C4_Witness ==
    /\ LastWriteStored
    /\ lastw.value = "v1"
    /\ lastr.op = "get" /\ lastr.n = lastw.n /\ lastr.key = lastw.key /\ ~lastr.fault
    /\ lastr.ret = None
    /\ RawEntry(store, lastw.key).kind = "json"

\* C5 as stated: a set that stored its payload has persisted the value with
\* expires_at = int(now + ttl) for the ttl the caller supplied, the default
\* standing in only for an absent ttl, and a following get returns that value.
C5_Claim ==
    LastWriteStored =>
        LET e == RawEntry(store, lastw.key)
            supplied == IF lastw.ttl = NoTtl THEN TtlDefaultSecs ELSE lastw.ttl[1]
        IN  /\ e.kind = "json"
            /\ e.value = lastw.value
            /\ e.expires_at = (lastw.t + supplied * TicksPerSec) \div TicksPerSec
            /\ now = lastw.t => GetNow(lastw.key) = lastw.value

\* C6: get never raises. Whatever the backend holds for the key (nothing,
\* content that is not JSON, an entry) a get whose backend read fails returns
\* absent, a get of missing or non-JSON content returns absent, and every get
\* made has returned a value or absent.
C6_GetNeverRaises ==
    /\ \A k \in Keys :
          /\ CacheGet(cfg, store, k, now, TRUE) = None
          /\ RawEntry(store, k).kind \in {"missing", "corrupt"} => GetNow(k) = None
    /\ lastr.op = "get" => lastr.ret \in Storable
    /\ \A c \in Callers : call[c].cached \in Storable

\* A get has returned absent for a key whose file holds content that is not
\* JSON.
C6_Witness ==
    /\ lastr.op = "get" /\ lastr.n = lastw.n
    /\ ~cfg.redis /\ cfg.enabled
    /\ store.files[_file_path(lastr.key)].kind = "corrupt"
    /\ lastr.ret = None

\* C7 as stated: a set that failed has returned without raising, and after it
\* get(key) returns absent or a value an earlier successful set stored under
\* that key.
C7_Claim ==
    (lastw.op = "set" /\ ~lastw.stored) =>
        /\ lastw.outcome = "returned"
        /\ GetNow(lastw.key) \in {None} \cup wrote[lastw.key]

\* The same for the key no other key shares a file name with.
C7_Unaliased ==
    (lastw.op = "set" /\ ~lastw.stored /\ lastw.key = KeyCD) =>
        /\ lastw.outcome = "returned"
        /\ GetNow(lastw.key) \in {None} \cup wrote[lastw.key]

\* The step is an invalidate that met no fault.
IsInvalidate == lastw'.n = lastw.n + 1 /\ lastw'.op = "invalidate" /\ faults' = faults

\* C8 as stated, for the entry the preceding set stored: if its key matches
\* the pattern (* standing for any substring), invalidate(pattern) removes the
\* entry, counts it in the number it returns and leaves get absent for the key;
\* if its key does not match, the entry is left as it was.
C8_Claim ==
    [][(IsInvalidate /\ LastWriteStored) =>
          IF GlobMatch(lastw'.key, lastw.key)
          THEN /\ RawEntry(store', lastw.key).kind = "missing"
               /\ CacheGet(cfg, store', lastw.key, now, FALSE) = None
               /\ lastw'.count >= 1
          ELSE RawEntry(store', lastw.key) = RawEntry(store, lastw.key)]_vars

\* The step is a set call.
IsSet == lastw'.n = lastw.n + 1 /\ lastw'.op = "set"

\* With caching disabled: get returns absent for every key, every get made
\* has returned absent, and every fetch-or-compute call has missed, has
\* invoked its producer exactly once and, once returned, has returned the
\* producer's result.
DisabledState ==
    ~cfg.enabled =>
        /\ \A k \in Keys : GetNow(k) = None /\ CacheGet(cfg, store, k, now, TRUE) = None
        /\ lastr.op = "get" => lastr.ret = None
        /\ \A c \in Callers :
              /\ call[c].pc # "idle" => (call[c].cached = None /\ call[c].invoked = 1)
              /\ call[c].pc = "done" => call[c].ret = call[c].value

\* C9: when caching is disabled, in every reachable state get returns absent
\* for every key and every fetch-or-compute call invokes its producer exactly
\* once and returns its result, and every set leaves every stored entry as it
\* was.
C9_Disabled ==
    /\ []DisabledState
    /\ [][(~cfg.enabled /\ IsSet) => store' = store]_vars

\* With caching disabled and a fresh entry on file for the key, a
\* fetch-or-compute call for it has invoked its producer, has called set, which
\* left the file as it was, and has returned the producer's value.
C9_Witness ==
    /\ ~cfg.enabled
    /\ store.files[_file_path(KeyAB)].kind = "json"
    /\ store.files[_file_path(KeyAB)].value = "v1"
    /\ lastw.op = "set" /\ lastw.key = KeyAB
    /\ \E c \in Callers :
          /\ lastw.by = c
          /\ call[c].pc = "done"
          /\ call[c].invoked = 1
          /\ call[c].ret = "zero"

\* C10 as stated: handed the same sets, gets and clock advances, the manager
\* on the remote backend and the manager on the file backend return the same
\* result for every get. It is stated here for the gets of the key that shares
\* its file name with no other key, where the two can differ only by what the
\* backends do.
C10_Claim == (lastr.op = "get" /\ lastr.key = KeyCD) => lastr.ret = twin.ret

\* ------------------------------------------------------ request cache keys
\* The longest list parameter drawn.
MaxList == 2

\* The strings of the list parameters, in code-point order: the order
\* sorted() puts them in (space, upper case, lower case).
WordOrder == <<" go", "Go", "Upwork", "freelancer", "go", "rust", "upwork">>

\* Technology names, subreddits and categories; platform names.
TechWords == {" go", "Go", "go", "rust"}
PlatWords == {"Upwork", "freelancer", "upwork"}

Rank(w) == CHOOSE i \in 1..Len(WordOrder) : WordOrder[i] = w

\* str.lower()
Lower(w) ==
    CASE w = "Go" -> "go" [] w = "Upwork" -> "upwork" [] w = "Python" -> "python"
      [] OTHER -> w

\* str.strip()
Strip(w) == CASE w = " go" -> "go" [] OTHER -> w

\* Lists of at most MaxList items of W.
Lists(W) == UNION {[1..n -> W] : n \in 0..MaxList}

\* [f(x) for x in l]
MapStripLower(l) == [i \in 1..Len(l) |-> Lower(Strip(l[i]))]
MapLower(l) == [i \in 1..Len(l) |-> Lower(l[i])]

\* l without its i-th item.
Without(l, i) == [j \in 1..(Len(l) - 1) |-> IF j < i THEN l[j] ELSE l[j + 1]]

\* sorted(l) for a list of strings.
RECURSIVE SortedWords(_)
SortedWords(l) ==
    IF l = <<>> THEN <<>>
    ELSE LET m == CHOOSE i \in 1..Len(l) :
                      /\ \A j \in 1..Len(l) : Rank(l[i]) <= Rank(l[j])
                      /\ \A j \in 1..(i - 1) : Rank(l[j]) > Rank(l[i])
         IN  <<l[m]>> \o SortedWords(Without(l, m))

\* sorted(list(s)) for a set of strings.
RECURSIVE SortedSet(_)
SortedSet(s) ==
    IF s = {} THEN <<>>
    ELSE LET w == CHOOSE x \in s : \A y \in s : Rank(x) <= Rank(y)
         IN  <<w>> \o SortedSet(s \ {w})

\* ",".join(l), as the sequence of its pieces.
RECURSIVE JoinComma(_)
JoinComma(l) ==
    IF l = <<>> THEN <<>>
    ELSE IF Len(l) = 1 THEN l
    ELSE <<l[1], ",">> \o JoinComma(Tail(l))

\* analyze_reddit: the cache key of a request.
RedditKey(today, subreddits, lookback_days, keywords) ==
    <<"reddit", ":", today, ":">> \o JoinComma(SortedWords(subreddits))
        \o <<":", lookback_days, ":">> \o JoinComma(SortedWords(MapLower(keywords)))

\* analyze_freelance: the platforms a request selects.
ValidPlatforms == {"upwork", "freelancer"}
Chosen(platforms) ==
    LET normalized == {Lower(Strip(platforms[i])) : i \in 1..Len(platforms)}
        selected == IF normalized = {} \/ "all" \in normalized
                    THEN ValidPlatforms ELSE normalized
    IN  SortedSet(selected \cap ValidPlatforms)

\* analyze_freelance: the cache key of a request.
FreelanceKey(today, platforms, categories) ==
    <<"freelance", ":", today, ":">> \o JoinComma(Chosen(platforms))
        \o <<":">> \o JoinComma(MapStripLower(categories))

\* search_trends: the cache key of a request.
TrendsKey(today, keywords, tf, reg) ==
    <<"trends", ":", today, ":">> \o JoinComma(SortedWords(MapStripLower(keywords)))
        \o <<":", tf, ":", reg>>

\* The tools that cache their result under a request key.
KeyedTools == {"analyze_reddit", "analyze_freelance", "search_trends"}

\* The list parameters of a request: p the first, q the second (search_trends
\* has one list parameter).
ListParams(tool) ==
    CASE tool = "analyze_reddit" -> [p : Lists(TechWords), q : Lists(TechWords)]
      [] tool = "analyze_freelance" -> [p : Lists(PlatWords), q : Lists(TechWords)]
      [] tool = "search_trends" -> [p : Lists(TechWords), q : {<<>>}]

\* The key the tool computes for a request made on day "d1" with lookback_days
\* 7, timeframe "now 7-d" and region "US".
KeyOf(tool, r) ==
    CASE tool = "analyze_reddit" -> RedditKey("d1", r.p, "7", r.q)
      [] tool = "analyze_freelance" -> FreelanceKey("d1", r.p, r.q)
      [] tool = "search_trends" -> TrendsKey("d1", r.p, "now 7-d", "US")

\* The same items, in a different order and/or different letter case.
SameItems(l, m) ==
    /\ Len(l) = Len(m)
    /\ \E pi \in [1..Len(l) -> 1..Len(l)] :
        /\ \A i, j \in 1..Len(l) : pi[i] = pi[j] => i = j
        /\ \A i \in 1..Len(l) : Lower(l[i]) = Lower(m[pi[i]])

\* The cache at rest: enabled, on the file backend, empty.
CacheAtRest ==
    /\ InitCache
    /\ cfg = FileCfg
    /\ store = EmptyStore
    /\ callttl = NoTtl

\* Two requests to one tool on the same day, the second with the list
\* parameters of the first reordered and/or in another letter case.
InitKeys ==
    /\ CacheAtRest
    /\ \E tool \in KeyedTools : \E r1, r2 \in ListParams(tool) :
        /\ SameItems(r1.p, r2.p)
        /\ SameItems(r1.q, r2.q)
        /\ req = [kind |-> "keys", tool |-> tool, first |-> r1, second |-> r2,
                  keys |-> <<>>]

\* Each request computes its cache key.
BuildKeys ==
    /\ req.kind = "keys"
    /\ req.keys = <<>>
    /\ req' = [req EXCEPT !.keys = <<KeyOf(req.tool, req.first), KeyOf(req.tool, req.second)>>]
    /\ UNCHANGED cachevars

SpecKeys == InitKeys /\ [][BuildKeys]_vars

\* C11: two requests to the same tool on the same day whose list parameters
\* hold the same items in a different order and/or letter case compute the
\* identical cache key.
C11_Claim ==
    (req.kind = "keys" /\ req.keys # <<>>) => req.keys[1] = req.keys[2]

\* ------------------------------------------------------------------ ranking
\* The most entries a mapping or a source's list holds.
MaxItems == 3

\* Technology names as a mapping's keys, and the scores drawn.
Techs == {"a", "b", "c"}
Scores == {5, 10}

\* A dict, as the sequence of its items in iteration order (keys distinct).
Mappings ==
    {l \in UNION {[1..n -> [technology : Techs, mentions : Scores]] : n \in 0..MaxItems} :
        \A i, j \in 1..Len(l) : l[i].technology = l[j].technology => i = j}

\* sorted(items, key=lambda x: x["mentions"], reverse=True) with the
\* sort's stability reversed: among equal scores the last comes first.
RECURSIVE SortDescLastFirst(_)
SortDescLastFirst(items) ==
    IF items = <<>> THEN <<>>
    ELSE LET m == CHOOSE i \in 1..Len(items) :
                      /\ \A j \in 1..Len(items) : items[i].mentions >= items[j].mentions
                      /\ \A j \in (i + 1)..Len(items) : items[j].mentions < items[i].mentions
         IN  <<items[m]>> \o SortDescLastFirst(Without(items, m))

\* sorted(items, key=lambda x: x["mentions"], reverse=True): descending, and
\* stable (reverse=True keeps equal elements in their original order).
RECURSIVE SortDesc(_)
SortDesc(items) ==
    IF items = <<>> THEN <<>>
    ELSE LET m == CHOOSE i \in 1..Len(items) :
                      /\ \A j \in 1..Len(items) : items[i].mentions >= items[j].mentions
                      /\ \A j \in 1..(i - 1) : items[j].mentions < items[i].mentions
         IN  <<items[m]>> \o SortDesc(Without(items, m))

\* rank_by_popularity with equal scores in reverse iteration order.
RankTiesReversed(technologies) == SortDescLastFirst(technologies)

\* RedditAnalyzer.rank_by_popularity
rank_by_popularity(technologies) == SortDesc(technologies)

\* A mapping to rank.
InitRank ==
    /\ CacheAtRest
    /\ \E t \in Mappings : req = [kind |-> "rank", technologies |-> t, done |-> FALSE,
                                  ranked |-> <<>>]

\* The mapping is ranked.
DoRank ==
    /\ req.kind = "rank"
    /\ ~req.done
    /\ req' = [req EXCEPT !.done = TRUE, !.ranked = rank_by_popularity(req.technologies)]
    /\ UNCHANGED cachevars

SpecRank == InitRank /\ [][DoRank]_vars

\* The position of technology t in the list l.
PosOf(l, t) == CHOOSE i \in 1..Len(l) : l[i].technology = t

\* The example mapping {a: 5, b: 5, c: 10}.
RankExample == <<[technology |-> "a", mentions |-> 5], [technology |-> "b", mentions |-> 5],
                 [technology |-> "c", mentions |-> 10]>>

\* C16: rank returns the mapping's entries, each once, by score descending,
\* entries of equal score in the mapping's iteration order; {a: 5, b: 5,
\* c: 10} ranks as [c, a, b].
C16_StableRank ==
    (req.kind = "rank" /\ req.done) =>
        LET t == req.technologies
            r == req.ranked
        IN  /\ Len(r) = Len(t)
            /\ {r[i] : i \in 1..Len(r)} = {t[i] : i \in 1..Len(t)}
            /\ \A i, j \in 1..Len(r) : i < j => r[i].mentions >= r[j].mentions
            /\ \A i, j \in 1..Len(r) :
                (i < j /\ r[i].mentions = r[j].mentions)
                    => PosOf(t, r[i].technology) < PosOf(t, r[j].technology)
            /\ t = RankExample =>
                   r = <<RankExample[3], RankExample[1], RankExample[2]>>

\* The example mapping has been ranked.
C16_Witness ==
    /\ req.kind = "rank"
    /\ req.done
    /\ req.technologies = RankExample
    /\ req.ranked[1].technology = "c"

\* -------------------------------------------------------------- aggregation
\* The precision, in bits, of the floating-point numbers of the model (float
\* is binary64 in the program: 53 bits).
MantissaBits == 3

\* The most sources aggregated, and the most entries of one source's list.
MaxSources == 2
MaxEntries == 2

RECURSIVE Pow2(_)
Pow2(n) == IF n = 0 THEN 1 ELSE 2 * Pow2(n - 1)

\* The unit in the last place of the float nearest to the integer n >= 0.
RECURSIVE Ulp(_, _)
Ulp(n, u) == IF n < u * Pow2(MantissaBits) THEN u ELSE Ulp(n, 2 * u)

\* The float nearest to n, ties to the even mantissa.
FRound(n) ==
    LET u == Ulp(n, 1)
        q == n \div u
        r == n % u
    IN  IF 2 * r < u THEN q * u
        ELSE IF 2 * r > u THEN (q + 1) * u
        ELSE IF q % 2 = 0 THEN q * u ELSE (q + 1) * u

\* Float addition and multiplication.
FAdd(x, y) == FRound(x + y)
FMul(x, y) == FRound(x * y)

\* The names sources report, the mentions they report and the weights given.
AggNames == {"Python", "python", " go"}
AggMentions == {3, 4, 5, 10}
AggWeights == {2}

\* The sources' names, in the order the caller lists them.
SourceNames == <<"x", "y", "z">>

\* A source's ranked list.
EntryLists == UNION {[1..n -> [technology : AggNames, mentions : AggMentions]] : n \in 0..MaxEntries}

\* The weights a caller passes: a weight for some of the sources.
WeightMaps == UNION {[S -> AggWeights] : S \in SUBSET {SourceNames[i] : i \in 1..MaxSources}}

\* weights.get(src_name, 1.0)
WeightOf(weights, src_name) == IF src_name \in DOMAIN weights THEN weights[src_name] ELSE 1

\* (it.get("technology") or "").strip().lower()
NormName(technology) == Lower(Strip(technology))

\* agg[tech] = m: the running total overwritten instead of added to.
AccumulateOverwrite(agg, tech, m) ==
    IF \E i \in 1..Len(agg) : agg[i].technology = tech
    THEN [i \in 1..Len(agg) |-> IF agg[i].technology = tech
                                 THEN [agg[i] EXCEPT !.mentions = m]
                                 ELSE agg[i]]
    ELSE Append(agg, [technology |-> tech, mentions |-> m])

\* agg[tech] = agg.get(tech, 0.0) + m, the dict as its items in insertion order.
Accumulate(agg, tech, m) ==
    IF \E i \in 1..Len(agg) : agg[i].technology = tech
    THEN [i \in 1..Len(agg) |-> IF agg[i].technology = tech
                                 THEN [agg[i] EXCEPT !.mentions = FAdd(@, m)]
                                 ELSE agg[i]]
    ELSE Append(agg, [technology |-> tech, mentions |-> FAdd(0, m)])

\* The loop over one source's items, each weighted by w.
RECURSIVE AddItems(_, _, _)
AddItems(agg, items, w) ==
    IF items = <<>> THEN agg
    ELSE AddItems(Accumulate(agg, NormName(items[1].technology), FMul(items[1].mentions, w)),
                  Tail(items), w)

\* The loop over the sources, each weighted by the technology's weight
\* instead of the source's.
RECURSIVE AddItemsByTech(_, _, _)
AddItemsByTech(agg, items, weights) ==
    IF items = <<>> THEN agg
    ELSE AddItemsByTech(
            Accumulate(agg, NormName(items[1].technology),
                       FMul(items[1].mentions, WeightOf(weights, items[1].technology))),
            Tail(items), weights)

RECURSIVE AddSourcesByTech(_, _, _)
AddSourcesByTech(agg, sources, weights) ==
    IF sources = <<>> THEN agg
    ELSE AddSourcesByTech(AddItemsByTech(agg, sources[1].top_technologies, weights),
                          Tail(sources), weights)

\* The loop over the sources.
RECURSIVE AddSources(_, _, _)
AddSources(agg, sources, weights) ==
    IF sources = <<>> THEN agg
    ELSE AddSources(AddItems(agg, sources[1].top_technologies,
                             WeightOf(weights, sources[1].source)),
                    Tail(sources), weights)

\* aggregate_multi_source with the weights looked up by technology.
AggregateWeightByTech(sources, weights) == SortDesc(AddSourcesByTech(<<>>, sources, weights))

\* DataProcessor.aggregate_multi_source
aggregate_multi_source(sources, weights) == SortDesc(AddSources(<<>>, sources, weights))

\* TrendsSearcher.aggregate_results
aggregate_results(results) == SortDesc(AddSources(<<>>, results, <<>>))

\* The orders a list of n sources can be passed in.
Orders(n) == {pi \in [1..n -> 1..n] : \A i, j \in 1..n : pi[i] = pi[j] => i = j}
Reorder(sources, pi) == [i \in 1..Len(sources) |-> sources[pi[i]]]

\* A list of source results and weights to aggregate.
InitAggregate ==
    /\ CacheAtRest
    /\ \E n \in 0..MaxSources : \E l \in [1..n -> EntryLists] : \E w \in WeightMaps :
        req = [kind |-> "aggregate",
               sources |-> [i \in 1..n |-> [source |-> SourceNames[i], top_technologies |-> l[i]]],
               weights |-> w, done |-> FALSE, out |-> <<>>, results |-> <<>>, reordered |-> {}]

\* The list is aggregated: by aggregate_multi_source with the weights, by
\* aggregate_results, and by each again with the sources in every other order.
DoAggregate ==
    /\ req.kind = "aggregate"
    /\ ~req.done
    /\ req' = [req EXCEPT
                !.done = TRUE,
                !.out = aggregate_multi_source(req.sources, req.weights),
                !.results = aggregate_results(req.sources),
                !.reordered = {[out |-> aggregate_multi_source(Reorder(req.sources, pi), req.weights),
                                results |-> aggregate_results(Reorder(req.sources, pi))] :
                                    pi \in Orders(Len(req.sources))}]
    /\ UNCHANGED cachevars

SpecAggregate == InitAggregate /\ [][DoAggregate]_vars

\* The weighted mentions the sources report under the name t, in the order
\* the sources and their entries are listed.
RECURSIVE Reported(_, _, _)
Reported(sources, weights, t) ==
    IF sources = <<>> THEN <<>>
    ELSE LET l == sources[1].top_technologies
             w == WeightOf(weights, sources[1].source)
         IN  SelectSeq([i \in 1..Len(l) |-> [technology |-> NormName(l[i].technology),
                                              mentions |-> FMul(l[i].mentions, w)]],
                       LAMBDA e : e.technology = t)
             \o Reported(Tail(sources), weights, t)

\* The float sum of the mentions of a list of entries, taken in order.
RECURSIVE SumMentions(_)
SumMentions(l) ==
    IF l = <<>> THEN 0 ELSE FAdd(SumMentions(SubSeq(l, 1, Len(l) - 1)), l[Len(l)].mentions)

\* The trimmed, lower-cased names occurring in the sources.
NamesIn(sources) ==
    UNION {{NormName(sources[i].top_technologies[j].technology) :
                j \in 1..Len(sources[i].top_technologies)} : i \in 1..Len(sources)}

\* The examples: Python 3 from x and python 4 from y; python 10 from x and
\* python 5 from y, y weighted 2.
AggExample1 ==
    <<[source |-> "x", top_technologies |-> <<[technology |-> "Python", mentions |-> 3]>>],
      [source |-> "y", top_technologies |-> <<[technology |-> "python", mentions |-> 4]>>]>>
AggExample2 ==
    <<[source |-> "x", top_technologies |-> <<[technology |-> "python", mentions |-> 10]>>],
      [source |-> "y", top_technologies |-> <<[technology |-> "python", mentions |-> 5]>>]>>
WeightY2 == [s \in {"y"} |-> 2]

\* C17: aggregate_multi_source returns a ranked list with exactly one entry
\* per distinct trimmed, lower-cased technology name of the inputs, its
\* mentions the sum over all sources and entries of that name of mentions
\* times the source's weight (1 when the source has none); Python 3 and
\* python 4 give python 7, python 10 from x and 5 from y weighted 2 give 20.
C17_WeightedSums ==
    (req.kind = "aggregate" /\ req.done) =>
        LET out == req.out
        IN  /\ \A i, j \in 1..Len(out) : out[i].technology = out[j].technology => i = j
            /\ {out[i].technology : i \in 1..Len(out)} = NamesIn(req.sources)
            /\ \A i \in 1..Len(out) :
                out[i].mentions = SumMentions(Reported(req.sources, req.weights, out[i].technology))
            /\ \A i, j \in 1..Len(out) : i < j => out[i].mentions >= out[j].mentions
            /\ (req.sources = AggExample1 /\ req.weights = <<>>)
                   => out = <<[technology |-> "python", mentions |-> 7]>>
            /\ (req.sources = AggExample2 /\ req.weights = WeightY2)
                   => out = <<[technology |-> "python", mentions |-> 20]>>

\* The weighted example has been aggregated.
C17_Witness ==
    /\ req.kind = "aggregate"
    /\ req.done
    /\ req.sources = AggExample2
    /\ req.weights = WeightY2
    /\ Len(req.out) = 1

\* The (technology, total mentions) pairs of a ranked list.
PairsOf(l) == {l[i] : i \in 1..Len(l)}

\* Two ranked lists of the same pairs differ in order only among entries of
\* equal totals.
SameUpToTies(a, b) ==
    /\ PairsOf(a) = PairsOf(b)
    /\ \A i, j \in 1..Len(a) :
        (i < j /\ a[i].mentions # a[j].mentions)
            => PosOf(b, a[i].technology) < PosOf(b, a[j].technology)

\* The exact sum of the numbers of a set of entries of the list l.
RECURSIVE ExactSum(_, _)
ExactSum(l, S) ==
    IF S = {} THEN 0
    ELSE LET i == CHOOSE x \in S : TRUE IN l[i] + ExactSum(l, S \ {i})

\* The exact weighted mentions the sources report under the name t.
RECURSIVE ExactReported(_, _, _)
ExactReported(sources, weights, t) ==
    IF sources = <<>> THEN <<>>
    ELSE LET l == sources[1].top_technologies
             w == WeightOf(weights, sources[1].source)
             mine == SelectSeq(l, LAMBDA e : NormName(e.technology) = t)
         IN  [i \in 1..Len(mine) |-> mine[i].mentions * w]
             \o ExactReported(Tail(sources), weights, t)

\* No sum of the weighted mentions of one name rounds, in whatever order they
\* are added: each of them and each sum of some of them is a float.
AddsExactly(sources, weights) ==
    \A t \in NamesIn(sources) :
        LET l == ExactReported(sources, weights, t)
        IN  \A S \in SUBSET (1..Len(l)) : FRound(ExactSum(l, S)) = ExactSum(l, S)

\* C18 as stated: for every permutation of the source results, the output of
\* aggregate_multi_source and of aggregate_results holds the same
\* (technology, total) pairs, in an order that differs only among equal totals.
C18_Original ==
    (req.kind = "aggregate" /\ req.done) =>
        \A r \in req.reordered :
            /\ SameUpToTies(r.out, req.out)
            /\ SameUpToTies(r.results, req.results)

\* C18, amended: the same, for inputs whose weighted mentions add without
\* rounding in every order.
C18_OrderIndependent ==
    (req.kind = "aggregate" /\ req.done) =>
        /\ AddsExactly(req.sources, req.weights) =>
               \A r \in req.reordered : SameUpToTies(r.out, req.out)
        /\ AddsExactly(req.sources, <<>>) =>
               \A r \in req.reordered : SameUpToTies(r.results, req.results)

\* Two sources reporting a common name and another, of sums that do not
\* round, whose order changes the output's order (among equal totals).
C18_Witness ==
    /\ req.kind = "aggregate"
    /\ req.done
    /\ Len(req.sources) = 2
    /\ AddsExactly(req.sources, req.weights)
    /\ \E t \in NamesIn(req.sources) : Len(ExactReported(req.sources, req.weights, t)) >= 2
    /\ \E r \in req.reordered : r.out # req.out

\* ------------------------------------------------------- anomaly detection
\* The longest list of values drawn.
MaxValues == 5

\* The values drawn, and the thresholds as fractions zn / zd: 1.5, 2.0 and the
\* default 3.0.
AnomalyValues == {1, 5, 100}
Thresholds == {<<3, 2>>, <<2, 1>>, <<3, 1>>}
ValueLists == UNION {[1..n -> AnomalyValues] : n \in 0..MaxValues}

\* sum(values)
RECURSIVE SumOf(_)
SumOf(values) == IF values = <<>> THEN 0 ELSE values[1] + SumOf(Tail(values))

\* len(values) * (v - mean), mean being sum(values) / len(values)
Deviation(values, v) == Len(values) * v - SumOf(values)

\* len(values)^2 * sum((v - mean) ** 2 for v in values)
SumSqDev(values) == SumOf([i \in 1..Len(values) |-> Deviation(values, values[i]) * Deviation(values, values[i])])

\* The list of the numbers of 0..(n - 1) that are in S, ascending.
RECURSIVE IndexList(_, _)
IndexList(S, n) ==
    IF n = 0 THEN <<>>
    ELSE IndexList(S, n - 1) \o (IF (n - 1) \in S THEN <<n - 1>> ELSE <<>>)

\* detect_anomalies with the variance over len(values) instead of
\* max(1, len(values) - 1).
DetectAnomaliesPopulation(values, z_thresh) ==
    IF values = <<>> THEN <<>>
    ELSE LET n == Len(values)
             q == SumSqDev(values)
         IN  IF q = 0 THEN <<>>
             ELSE IndexList({i \in 0..(n - 1) :
                                n * Deviation(values, values[i + 1]) * Deviation(values, values[i + 1])
                                    * z_thresh[2] * z_thresh[2]
                                  >= z_thresh[1] * z_thresh[1] * q}, n)

\* DataProcessor.detect_anomalies: var = sum((v - mean)^2) / max(1, n - 1),
\* std = sqrt(var), and index i is returned when abs(v - mean) / std >=
\* z_thresh; with both sides squared and multiplied by n^2 * var * zd^2 the
\* comparison is one of integers. Indices count from 0.
detect_anomalies(values, z_thresh) ==
    IF values = <<>> THEN <<>>
    ELSE LET n == Len(values)
             d == IF n - 1 > 1 THEN n - 1 ELSE 1
             q == SumSqDev(values)
         IN  IF q = 0 THEN <<>>
             ELSE IndexList({i \in 0..(n - 1) :
                                d * Deviation(values, values[i + 1]) * Deviation(values, values[i + 1])
                                    * z_thresh[2] * z_thresh[2]
                                  >= z_thresh[1] * z_thresh[1] * q}, n)

\* A list of values and a threshold.
InitAnomalies ==
    /\ CacheAtRest
    /\ \E v \in ValueLists : \E z \in Thresholds :
        req = [kind |-> "anomalies", values |-> v, z_thresh |-> z, done |-> FALSE,
               anomalies |-> <<>>]

\* The list is searched for anomalies.
DoDetect ==
    /\ req.kind = "anomalies"
    /\ ~req.done
    /\ req' = [req EXCEPT !.done = TRUE,
                          !.anomalies = detect_anomalies(req.values, req.z_thresh)]
    /\ UNCHANGED cachevars

SpecAnomalies == InitAnomalies /\ [][DoDetect]_vars

\* The sum over j of (v - values[j]): len(values) times v's distance from the mean.
RECURSIVE SumDiff(_, _)
SumDiff(v, values) == IF values = <<>> THEN 0 ELSE (v - values[1]) + SumDiff(v, Tail(values))

\* The sum over all pairs j < k of (values[j] - values[k])^2: n * (n - 1)
\* times the sample variance.
RECURSIVE PairSq(_)
PairSq(values) ==
    IF values = <<>> THEN 0
    ELSE SumOf([k \in 1..(Len(values) - 1) |->
                    (values[1] - values[k + 1]) * (values[1] - values[k + 1])])
         + PairSq(Tail(values))

\* |values[i] - mean| / std >= zn / zd, std the sample standard deviation
\* (which is 0, or undefined, when PairSq is 0).
ZAtLeast(values, i, z) ==
    /\ Len(values) >= 2
    /\ PairSq(values) > 0
    /\ (Len(values) - 1) * SumDiff(values[i + 1], values) * SumDiff(values[i + 1], values) * z[2] * z[2]
           >= z[1] * z[1] * Len(values) * PairSq(values)

\* The indices of the list, each at most once, ascending.
AnomaliesFormula ==
    LET a == req.anomalies
    IN  /\ \A k \in 1..Len(a) : a[k] \in 0..(Len(req.values) - 1)
        /\ \A k, l \in 1..Len(a) : k < l => a[k] < a[l]
        /\ \A i \in 0..(Len(req.values) - 1) :
            (\E k \in 1..Len(a) : a[k] = i) <=> ZAtLeast(req.values, i, req.z_thresh)
        /\ (req.values = <<>> \/ PairSq(req.values) = 0) => a = <<>>

\* C19 as stated: detect_anomalies returns exactly the indices i where
\* |values[i] - mean| / std >= z_threshold, std the sample standard deviation,
\* and the empty list when values is empty or std is 0; in particular
\* [1,1,1,1,100] with threshold 2.0 flags the index of 100 and [5,5,5]
\* returns empty.
C19_Original ==
    (req.kind = "anomalies" /\ req.done) =>
        /\ AnomaliesFormula
        /\ (req.values = <<1, 1, 1, 1, 100>> /\ req.z_thresh = <<2, 1>>) => req.anomalies = <<4>>
        /\ (req.values = <<5, 5, 5>> /\ req.z_thresh = <<3, 1>>) => req.anomalies = <<>>

\* C19, amended: the same formula; [1,1,1,1,100] with threshold 2.0 returns
\* empty (the z-score of 100 is 4 / sqrt(5), about 1.79) and with threshold
\* 1.5 flags the index of 100; [5,5,5] returns empty.
C19_SampleZScore ==
    (req.kind = "anomalies" /\ req.done) =>
        /\ AnomaliesFormula
        /\ (req.values = <<1, 1, 1, 1, 100>> /\ req.z_thresh = <<2, 1>>) => req.anomalies = <<>>
        /\ (req.values = <<1, 1, 1, 1, 100>> /\ req.z_thresh = <<3, 2>>) => req.anomalies = <<4>>
        /\ (req.values = <<5, 5, 5>> /\ req.z_thresh = <<3, 1>>) => req.anomalies = <<>>

\* The example list has been searched with threshold 2.0.
C19_Witness ==
    /\ req.kind = "anomalies"
    /\ req.done
    /\ req.values = <<1, 1, 1, 1, 100>>
    /\ req.z_thresh = <<2, 1>>

\* -------------------------------------------------------------- growth rate
\* The longest series drawn.
MaxPoints == 3

\* The values of a series' points, and the dates of its points in order.
PointValues == {-10, 0, 5, 10, 15}
Dates == <<"d1", "d2", "d3", "d4">>

\* A series: a list of (date_str, value).
SeriesOf(values) == [i \in 1..Len(values) |-> <<Dates[i], values[i]>>]

\* abs(x)
Abs(x) == IF x < 0 THEN -x ELSE x

\* The float 0.0, and the quotient num / den, as a fraction.
Zero == [num |-> 0, den |-> 1]
Quotient(n, d) == [num |-> n, den |-> d]

\* calculate_growth_rate dividing by start instead of abs(start).
GrowthRateSigned(series) ==
    IF series = <<>> \/ Len(series) < 2 THEN Zero
    ELSE LET start == series[1][2]
             end == series[Len(series)][2]
         IN  IF start = 0 THEN Zero ELSE Quotient(end - start, start)

\* DataProcessor.calculate_growth_rate
calculate_growth_rate(series) ==
    IF series = <<>> \/ Len(series) < 2 THEN Zero
    ELSE LET start == series[1][2]
             end == series[Len(series)][2]
         IN  IF start = 0 THEN Zero ELSE Quotient(end - start, Abs(start))

\* A series.
InitGrowth ==
    /\ CacheAtRest
    /\ \E n \in 0..MaxPoints : \E v \in [1..n -> PointValues] :
        req = [kind |-> "growth", series |-> SeriesOf(v), done |-> FALSE, rate |-> Zero]

\* The growth rate of the series is calculated.
DoGrowth ==
    /\ req.kind = "growth"
    /\ ~req.done
    /\ req' = [req EXCEPT !.done = TRUE, !.rate = calculate_growth_rate(req.series)]
    /\ UNCHANGED cachevars

SpecGrowth == InitGrowth /\ [][DoGrowth]_vars

\* The fraction f is the number n / d, d > 0.
IsRatio(f, n, d) == f.den # 0 /\ f.num * d = n * f.den

\* C20: calculate_growth_rate returns (last - first) / abs(first) when the
\* series has two points or more and a first value other than zero, and 0 in
\* every other case; [] gives 0, [(d1,0),(d2,5)] gives 0, [(d1,10),(d2,15)]
\* gives 0.5, and with a negative first value a rise is a positive rate.
C20_GrowthRate ==
    (req.kind = "growth" /\ req.done) =>
        LET s == req.series
            n == Len(s)
        IN  /\ (n >= 2 /\ s[1][2] > 0) => IsRatio(req.rate, s[n][2] - s[1][2], s[1][2])
            /\ (n >= 2 /\ s[1][2] < 0) => IsRatio(req.rate, s[n][2] - s[1][2], -s[1][2])
            /\ (n < 2 \/ (n >= 2 /\ s[1][2] = 0)) => IsRatio(req.rate, 0, 1)
            /\ s = <<>> => IsRatio(req.rate, 0, 1)
            /\ s = <<<<"d1", 0>>, <<"d2", 5>>>> => IsRatio(req.rate, 0, 1)
            /\ s = <<<<"d1", 10>>, <<"d2", 15>>>> => IsRatio(req.rate, 1, 2)
            /\ s = <<<<"d1", -10>>, <<"d2", 5>>>> => IsRatio(req.rate, 3, 2)

\* The rate of a series that starts below zero has been calculated.
C20_Witness ==
    /\ req.kind = "growth"
    /\ req.done
    /\ req.series = <<<<"d1", -10>>, <<"d2", 5>>>>
    /\ req.rate.num = 15

\* ----------------------------------------------------------- tool requests
\* A list argument: a list of strings (its items given), a list with an item
\* that is no string, a value that is no list, or None.
StrList(items) == [shape |-> "list_str", items |-> items]
MixedList == [shape |-> "list_mixed", items |-> <<>>]
NotAList == [shape |-> "not_list", items |-> <<>>]
NoList == [shape |-> "none", items |-> <<>>]

\* An int argument n, and the string "7".
IntArg(n) == [type |-> "int", n |-> n]
StrSeven == [type |-> "str", n |-> 7]

\* A format argument: a string, None, or a number.
FormatStr(s) == [type |-> "str", s |-> s]
FormatNone == [type |-> "none", s |-> ""]
FormatInt == [type |-> "int", s |-> ""]

\* The arguments drawn for each tool.
SubredditArgs == {StrList(<<>>), StrList(<<"go">>), StrList(<<"go", "rust">>), MixedList, NotAList}
LookbackArgs == {IntArg(7), IntArg(0), IntArg(-1), StrSeven}
KeywordArgs == {StrList(<<>>), StrList(<<"Go", "rust">>), MixedList, NotAList}
PlatformArgs == {StrList(<<>>), StrList(<<"upwork">>), StrList(<<"Upwork", "freelancer">>),
                 StrList(<<"all">>), StrList(<<"fiverr">>), MixedList, NotAList}
CategoryArgs == {NoList, StrList(<<>>), StrList(<<"go">>), StrList(<<"java">>), MixedList, NotAList}
DataArgs == {"dict", "list"}
FormatArgs == {FormatStr("html"), FormatStr("PDF "), FormatStr("docx"), FormatStr(""),
               FormatNone, FormatInt}

\* The tools and the requests drawn for each.
Tools == {"analyze_reddit", "analyze_freelance", "search_trends", "generate_report"}
Requests ==
    [tool : {"analyze_reddit"}, subreddits : SubredditArgs, lookback_days : LookbackArgs,
     keywords : KeywordArgs]
    \cup [tool : {"analyze_freelance"}, platforms : PlatformArgs, categories : CategoryArgs]
    \cup [tool : {"search_trends"}, keywords : KeywordArgs]
    \cup [tool : {"generate_report"}, data : DataArgs, format : FormatArgs]

\* (format or "html").strip().lower()
NormFormat(format) ==
    IF format.type = "none" \/ format.s = "" THEN "html"
    ELSE IF format.s = "PDF " THEN "pdf"
    ELSE format.s

\* not isinstance(x, list) or not all(isinstance(s, str) for s in x)
NotListOfStr(x) == x.shape # "list_str"

\* analyze_reddit with "lookback_days <= 0" left out of its check.
ValidateRedditNoRange(r) ==
    IF NotListOfStr(r.subreddits) THEN "ValueError: subreddits must be a list[str]"
    ELSE IF r.lookback_days.type # "int"
         THEN "ValueError: lookback_days must be a positive int"
    ELSE IF NotListOfStr(r.keywords) THEN "ValueError: keywords must be a list[str]"
    ELSE "ok"

\* analyze_reddit (lines 180-186)
ValidateReddit(r) ==
    IF NotListOfStr(r.subreddits) THEN "ValueError: subreddits must be a list[str]"
    ELSE IF r.lookback_days.type # "int" \/ r.lookback_days.n <= 0
         THEN "ValueError: lookback_days must be a positive int"
    ELSE IF NotListOfStr(r.keywords) THEN "ValueError: keywords must be a list[str]"
    ELSE "ok"

\* analyze_freelance (lines 301-315)
ValidateFreelance(r) ==
    IF NotListOfStr(r.platforms) THEN "ValueError: platforms must be a list[str]"
    ELSE IF r.categories.shape # "none" /\ NotListOfStr(r.categories)
         THEN "ValueError: categories must be a list[str] if provided"
    ELSE IF Chosen(r.platforms.items) = <<>>
         THEN "ValueError: platforms must include at least one of: upwork, freelancer, all"
    ELSE "ok"

\* search_trends (lines 396-397)
ValidateTrends(r) ==
    IF NotListOfStr(r.keywords) THEN "ValueError: keywords must be a list[str]" ELSE "ok"

\* generate_report (lines 252-256); strip() of a format that is no string
\* raises AttributeError.
ValidateReport(r) ==
    IF r.data # "dict" THEN "ValueError: data must be a dict"
    ELSE IF r.format.type = "int" THEN "AttributeError"
    ELSE IF NormFormat(r.format) \notin {"pdf", "excel", "html"}
         THEN "ValueError: format must be one of: pdf, excel, html"
    ELSE "ok"

\* The outcome of the checks a tool makes on its arguments, in the order it
\* makes them: "ok", or the error it raises.
Validate(r) ==
    CASE r.tool = "analyze_reddit" -> ValidateReddit(r)
      [] r.tool = "analyze_freelance" -> ValidateFreelance(r)
      [] r.tool = "search_trends" -> ValidateTrends(r)
      [] r.tool = "generate_report" -> ValidateReport(r)

\* The most sub-tasks a request fans out to: the three sources of
\* search_trends.
MaxSubTasks == 3

\* The cache keys of a request, as keys of the cache: the key of the request
\* ("<tool>:<day>:<parameters>") and the per-day key of search_trends
\* ("trends:<day>").
RequestKey == KeyCD
DayKey == KeyAB

\* What a sub-task finds upstream: "up": the source answers; "down": the
\* first call fails (network, HTTP status, authentication); "breaks": the
\* source answers and a later call or the parsing fails; "nolib": the client
\* library cannot be imported.
Upstreams(tool) ==
    IF tool = "analyze_reddit" THEN {"up", "down", "breaks"}
    ELSE {"up", "down", "breaks", "nolib"}

\* The records (posts, jobs, counts) the i-th source holds, each a technology
\* and the number of its mentions.
SourceData(i) ==
    CASE i = 1 -> <<[technology |-> "go", mentions |-> 1], [technology |-> "rust", mentions |-> 2]>>
      [] i = 2 -> <<[technology |-> "go", mentions |-> 2], [technology |-> "rust", mentions |-> 1]>>
      [] OTHER -> <<[technology |-> "rust", mentions |-> 1], [technology |-> "go", mentions |-> 1]>>

\* kw_norm of search_trends, and the keywords extract_technologies looks for.
KwNorm(keywords) == {Lower(Strip(keywords.items[i])) : i \in 1..Len(keywords.items)}

\* categories_lc of analyze_freelance, as a set.
CategoriesLc(categories) == {Lower(Strip(categories.items[i])) : i \in 1..Len(categories.items)}

\* The sub-tasks of a request's fan-out, by name: a fetch_sub per subreddit
\* (none without a Reddit client), a scraper per chosen platform, the three
\* sources of search_trends.
SubTasks(r, client) ==
    CASE r.tool = "analyze_reddit" -> IF client THEN r.subreddits.items ELSE <<>>
      [] r.tool = "analyze_freelance" -> Chosen(r.platforms.items)
      [] r.tool = "search_trends" -> <<"google_trends", "github_trending", "stackoverflow">>
      [] OTHER -> <<>>

\* What the i-th sub-task has collected when it ends: everything, nothing, or
\* what it had before the failure. search_google_trends asks for the
\* keywords only, and makes no call when there is none.
Collected(r, i, upstream) ==
    LET all == IF r.tool = "search_trends" /\ i = 1
               THEN SelectSeq(SourceData(i), LAMBDA e : e.technology \in KwNorm(r.keywords))
               ELSE SourceData(i)
    IN  CASE upstream = "up" -> all
          [] upstream = "breaks" -> SubSeq(all, 1, Len(all) - 1)
          [] OTHER -> <<>>

\* A sub-task that lets the exception of its upstream call out.
SubTaskEndRaises(upstream) == IF upstream \in {"down", "breaks"} THEN "raised" ELSE "returned"

\* How a sub-task ends: every one wraps its upstream calls in
\* "try: ... except Exception" and returns.
SubTaskEnd(upstream) == "returned"

\* The status a source adapter of search_trends reports.
AdapterStatus(r, i, upstream) ==
    IF r.tool = "search_trends" /\ i = 1 /\ KwNorm(r.keywords) = {} THEN "ok"
    ELSE IF upstream = "nolib" THEN "not_available"
    ELSE "ok"

\* The number of times a sub-task makes its upstream call: once, directly
\* (subreddit.new, requests.get of a URL, TrendReq), and not at all without
\* the client library; none goes through _retry.
UpstreamCalls(upstream) == IF upstream = "nolib" THEN 0 ELSE 1

\* A sub-task not yet run, and one that has ended.
Pending == [state |-> "pending", upstream |-> "up", got |-> <<>>, status |-> "ok", calls |-> 0]
Ended(r, i, upstream) ==
    [state |-> SubTaskEnd(upstream), upstream |-> upstream, got |-> Collected(r, i, upstream),
     status |-> AdapterStatus(r, i, upstream), calls |-> UpstreamCalls(upstream)]

\* The records of the last sub-task alone: "jobs = r" for "jobs.extend(r)".
ExtendLast(tasks) == IF tasks = <<>> THEN <<>> ELSE tasks[Len(tasks)].got

\* list.extend over the sub-tasks' records, in the order of the sub-tasks.
RECURSIVE Extend(_)
Extend(tasks) == IF tasks = <<>> THEN <<>> ELSE tasks[1].got \o Extend(Tail(tasks))

\* The result without content a hit of the cache stands for in the model.
NoResult == [top_technologies |-> <<>>, count |-> 0, status |-> "none"]

\* analyze_reddit.fetch: the mentions of the keywords in the posts, ranked.
RedditResult(r, tasks) ==
    LET posts == Extend(tasks)
        technologies == AddItems(<<>>, SelectSeq(posts, LAMBDA e : e.technology \in KwNorm(r.keywords)), 1)
    IN  [top_technologies |-> rank_by_popularity(technologies), count |-> Len(posts),
         status |-> "none"]

\* Optional[float], as a sequence of at most one element: None.
NoRate == <<>>

\* The hourly rate calculate_avg_rates finds for a job of the scrapers: its
\* "rate" is None, it has no "rate_text" and no "description", and its title
\* is "... skill: <c>" for a candidate c without a digit, which none of the
\* patterns of _extract_rate_from_text matches.
JobRate(job) == NoRate

\* vals of calculate_avg_rates.
RECURSIVE RateVals(_)
RateVals(jobs) == IF jobs = <<>> THEN <<>> ELSE JobRate(jobs[1]) \o RateVals(Tail(jobs))

\* FreelanceAnalyzer.calculate_avg_rates, in whole units.
calculate_avg_rates(jobs) ==
    LET vals == RateVals(jobs)
    IN  IF vals = <<>> THEN 0 ELSE SumOf(vals) \div Len(vals)

\* jobs of analyze_freelance.fetch: what the scrapers returned, filtered by
\* the categories when there are any.
FreelanceJobs(r, tasks) ==
    LET found == Extend(tasks)
    IN  IF CategoriesLc(r.categories) = {} THEN found
        ELSE SelectSeq(found, LAMBDA e : e.technology \in CategoriesLc(r.categories))

\* analyze_freelance.fetch: the jobs of the categories, their skills ranked;
\* rated: avg_rate is not 0.0.
FreelanceResult(r, tasks, rated) ==
    LET jobs == FreelanceJobs(r, tasks)
        ranked == SortDesc(AddItems(<<>>, jobs, 1))
    IN  [top_technologies |-> ranked, count |-> Len(jobs),
         status |-> IF ranked = <<>> THEN "not_available"
                    ELSE IF ~rated THEN "partial" ELSE "ok"]

\* search_trends.fetch: each adapter's ranked list, aggregated.
TrendsResult(r, tasks) ==
    LET names == SubTasks(r, TRUE)
        results == [i \in 1..Len(tasks) |->
                        [source |-> names[i],
                         top_technologies |-> SortDesc(AddItems(<<>>, tasks[i].got, 1))]]
    IN  [top_technologies |-> aggregate_results(results), count |-> Len(Extend(tasks)),
         status |-> "none"]

\* The result fetch() returns.
FetchResult(r, tasks, rated) ==
    CASE r.tool = "analyze_reddit" -> RedditResult(r, tasks)
      [] r.tool = "analyze_freelance" -> FreelanceResult(r, tasks, rated)
      [] r.tool = "search_trends" -> TrendsResult(r, tasks)
      [] OTHER -> NoResult

\* The variables of the cache that a tool request leaves alone.
cachehistory == <<cfg, now, call, lastw, lastr, wrote, twin, callttl, ops, faults>>

\* The cached form of a result: one whose top_technologies is empty, and one
\* with technologies. (A result is a dict with a "date" and more: never None.)
EmptyResult == "empty_result"
FullResult == "full_result"
ResultToken(result) == IF result.top_technologies = <<>> THEN EmptyResult ELSE FullResult

\* A fetch-or-compute that keeps degraded results out of the cache.
StoreResultUnlessEmpty(conf, st, token, ttl, t) ==
    IF token = EmptyResult THEN st
    ELSE CacheSet(conf, st, RequestKey, token, ttl, t, FALSE, "ok")

\* get_or_fetch_async after fetch has returned: self.set(key, value, ttl=ttl),
\* whatever the value.
StoreResult(conf, st, token, ttl, t) ==
    CacheSet(conf, st, RequestKey, token, ttl, t, FALSE, "ok")

\* No earlier request.
NoFirst == [made |-> FALSE, fetched |-> FALSE, token |-> None, t |-> 0, allfailed |-> FALSE]

\* A request as the tool function is entered: store0 is the cache as the
\* request found it, started the number of sub-tasks it has started, cached
\* what the cache returned for its key at lookup_t, set_t the time of its
\* set, first the identical request made before it (allfailed: every one of
\* its sub-tasks found its source down or its library missing).
NewRequest(r, st) ==
    [kind |-> "request", r |-> r, pc |-> "received", error |-> "none", client |-> FALSE,
     tasks |-> <<>>, started |-> 0, fetched |-> FALSE, result |-> NoResult, store0 |-> st,
     cached |-> None, lookup_t |-> 0, set_t |-> 0, first |-> NoFirst]

\* What the tool returns: the result fetch built, or the cached one.
Returned(rq) == IF rq.fetched THEN ResultToken(rq.result) ELSE rq.cached

\* The server with its cache, no request received.
InitRequests == Init /\ store = EmptyStore /\ callttl = NoTtl

\* An earlier request with the same parameters has left its result in the cache.
EarlierRequest ==
    /\ req = NoReq
    /\ store = EmptyStore
    /\ cfg.enabled
    /\ store' = CacheSet(cfg, store, RequestKey, FullResult, callttl, now, FALSE, "ok")
    /\ UNCHANGED <<req, cachehistory>>

\* A client calls a tool.
Receive(r) ==
    /\ req = NoReq
    /\ req' = NewRequest(r, store)
    /\ UNCHANGED cachevars

\* The tool checks its arguments and raises, or goes on: analyze_reddit to
\* get_reddit_client (which returns None without credentials) and the cache,
\* generate_report to the rendering.
CheckArguments ==
    /\ req.kind = "request"
    /\ req.pc = "received"
    /\ LET v == Validate(req.r)
       IN  IF v # "ok" THEN req' = [req EXCEPT !.pc = "rejected", !.error = v]
           ELSE IF req.r.tool = "generate_report" THEN req' = [req EXCEPT !.pc = "rendering"]
           ELSE \E client \in (IF req.r.tool = "analyze_reddit" THEN BOOLEAN ELSE {TRUE}) :
                    req' = [req EXCEPT !.pc = "lookup", !.client = client]
    /\ UNCHANGED cachevars

\* get_or_fetch_async, up to the call of fetch: a hit is returned; on a miss
\* fetch starts its sub-tasks.
Lookup ==
    /\ req.kind = "request"
    /\ req.pc = "lookup"
    /\ LET cached == CacheGet(cfg, store, RequestKey, now, FALSE)
           names == SubTasks(req.r, req.client)
       IN  IF ~IsMiss(cached)
           THEN req' = [req EXCEPT !.pc = "returning", !.cached = cached, !.lookup_t = now]
           ELSE req' = [req EXCEPT !.pc = "fetching", !.lookup_t = now,
                                   !.tasks = [i \in 1..Len(names) |-> Pending],
                                   !.started = Len(names)]
    /\ UNCHANGED cachevars

\* A sub-task runs to its end. The fetch_sub coroutines of fetch_posts never
\* suspend, so they run one after the other; the scrapers and the adapters
\* run in threads, in any order.
RunSubTask(i, upstream) ==
    /\ req.kind = "request"
    /\ req.pc = "fetching"
    /\ i \in 1..Len(req.tasks)
    /\ req.tasks[i].state = "pending"
    /\ \A j \in 1..Len(req.tasks) : req.tasks[j].state # "raised"
    /\ req.r.tool = "analyze_reddit" => \A j \in 1..(i - 1) : req.tasks[j].state # "pending"
    /\ upstream \in Upstreams(req.r.tool)
    /\ req' = [req EXCEPT !.tasks[i] = Ended(req.r, i, upstream)]
    /\ UNCHANGED cachevars

\* asyncio.gather returns when every sub-task has returned, and raises when
\* one has raised: the exception leaves fetch, get_or_fetch_async and the tool.
Join ==
    /\ req.kind = "request"
    /\ req.pc = "fetching"
    /\ \/ \A i \in 1..Len(req.tasks) : req.tasks[i].state = "returned"
       \/ \E i \in 1..Len(req.tasks) : req.tasks[i].state = "raised"
    /\ req' = IF \E i \in 1..Len(req.tasks) : req.tasks[i].state = "raised"
              THEN [req EXCEPT !.pc = "failed", !.error = "upstream"]
              ELSE [req EXCEPT !.pc = "joined"]
    /\ UNCHANGED cachevars

\* fetch builds the result from what the sub-tasks returned, and
\* get_or_fetch_async stores it.
Assemble ==
    /\ req.kind = "request"
    /\ req.pc = "joined"
    /\ LET rated == /\ req.r.tool = "analyze_freelance"
                    /\ calculate_avg_rates(FreelanceJobs(req.r, req.tasks)) # 0
           result == FetchResult(req.r, req.tasks, rated)
       IN  /\ req' = [req EXCEPT !.pc = "returning", !.fetched = TRUE, !.result = result,
                                 !.set_t = now]
           /\ store' = StoreResult(cfg, store, ResultToken(result), callttl, now)
    /\ UNCHANGED cachehistory

\* The tool returns its result; search_trends first stores it under the
\* per-day key.
Return ==
    /\ req.kind = "request"
    /\ req.pc = "returning"
    /\ req' = [req EXCEPT !.pc = "done"]
    /\ store' = IF req.r.tool = "search_trends"
                THEN CacheSet(cfg, store, DayKey, Returned(req), callttl, now, FALSE, "ok")
                ELSE store
    /\ UNCHANGED cachehistory

\* generate_report renders the report.
Render ==
    /\ req.kind = "request"
    /\ req.pc = "rendering"
    /\ req' = [req EXCEPT !.pc = "done"]
    /\ UNCHANGED cachevars

NextRequests ==
    \/ EarlierRequest
    \/ \E r \in Requests : Receive(r)
    \/ CheckArguments
    \/ Lookup
    \/ \E i \in 1..MaxSubTasks : \E upstream \in {"up", "down", "breaks", "nolib"} :
            RunSubTask(i, upstream)
    \/ Join
    \/ Assemble
    \/ Return
    \/ Render

SpecRequests == InitRequests /\ [][NextRequests]_vars

\* A list argument that is no list of strings.
BadList(x) == x.shape \in {"list_mixed", "not_list", "none"}

\* A request with an argument of the wrong shape, type or range: a list
\* argument that is no list of strings (categories may be left out), a
\* lookback_days that is no positive integer, platforms naming none of upwork,
\* freelancer and all (an empty list stands for all), data that is no dict, a
\* format that is no string or none of pdf, excel and html (None and the empty
\* string stand for html).
Malformed(r) ==
    CASE r.tool = "analyze_reddit" ->
            \/ BadList(r.subreddits)
            \/ BadList(r.keywords)
            \/ r.lookback_days.type # "int"
            \/ r.lookback_days.n < 1
      [] r.tool = "analyze_freelance" ->
            \/ BadList(r.platforms)
            \/ r.categories.shape \in {"list_mixed", "not_list"}
            \/ /\ r.platforms.items # <<>>
               /\ \A i \in 1..Len(r.platforms.items) :
                    r.platforms.items[i] \notin {"upwork", "Upwork", "freelancer", "all"}
      [] r.tool = "search_trends" -> BadList(r.keywords)
      [] r.tool = "generate_report" ->
            \/ r.data # "dict"
            \/ r.format.type = "int"
            \/ r.format.type = "str" /\ r.format.s \notin {"", "html", "PDF "}

SpecRequestsLive ==
    /\ SpecRequests
    /\ WF_vars(\E i \in 1..MaxSubTasks : \E upstream \in {"up", "down", "breaks", "nolib"} :
                    RunSubTask(i, upstream))
    /\ WF_vars(Join)

\* C13: every source adapter of search_trends whose upstream call fails
\* (network, HTTP status or parsing failure) returns, without raising, a
\* result with an empty top_technologies list and status not_available.
C13_Claim ==
    (req.kind = "request" /\ req.r.tool = "search_trends") =>
        \A i \in 1..Len(req.tasks) :
            ( /\ req.tasks[i].state # "pending"
              /\ req.tasks[i].upstream \in {"down", "breaks"}
              /\ (i = 1 => KwNorm(req.r.keywords) # {}) )
            => ( /\ req.tasks[i].state = "returned"
                 /\ req.tasks[i].got = <<>>
                 /\ req.tasks[i].status = "not_available" )

\* The mentions of technology t in a list of records.
RECURSIVE MentionsIn(_, _)
MentionsIn(l, t) ==
    IF l = <<>> THEN 0
    ELSE (IF l[1].technology = t THEN l[1].mentions ELSE 0) + MentionsIn(Tail(l), t)

\* The technologies a request asks about: the keywords of analyze_reddit, the
\* categories of analyze_freelance when it has any, the keywords for Google
\* Trends (source 1 of search_trends).
AskedFor(r, i) ==
    CASE r.tool = "analyze_reddit" -> KwNorm(r.keywords)
      [] r.tool = "analyze_freelance" ->
            IF CategoriesLc(r.categories) = {} THEN {"go", "rust"} ELSE CategoriesLc(r.categories)
      [] r.tool = "search_trends" /\ i = 1 -> KwNorm(r.keywords)
      [] OTHER -> {"go", "rust"}

\* The mentions of t the sub-tasks that succeeded found, of those asked for.
RECURSIVE FoundBySucceeded(_, _, _, _)
FoundBySucceeded(r, tasks, n, t) ==
    IF n = 0 THEN 0
    ELSE (IF tasks[n].upstream = "up" /\ t \in AskedFor(r, n) THEN MentionsIn(SourceData(n), t) ELSE 0)
         + FoundBySucceeded(r, tasks, n - 1, t)

\* The mentions of t in a ranked list (0 when it has no entry for t).
Ranked(l, t) == MentionsIn(l, t)

\* The request has fetched its result.
Fetched == req.kind = "request" /\ req.pc \in {"returning", "done"} /\ req.fetched

\* C14: in every fan-out, whatever sub-tasks fail, the others run to
\* completion, the join completes and the result holds the contributions of
\* every sub-task that succeeded; no failure of a sub-task fails the request.
C14_FailureIsolation ==
    /\ [](req.kind = "request" =>
            /\ req.pc # "failed"
            /\ \A i \in 1..Len(req.tasks) : req.tasks[i].state \in {"pending", "returned"})
    /\ [](Fetched =>
            /\ \A i \in 1..Len(req.tasks) : req.tasks[i].state = "returned"
            /\ \A t \in {"go", "rust"} :
                Ranked(req.result.top_technologies, t)
                    >= FoundBySucceeded(req.r, req.tasks, Len(req.tasks), t)
            /\ (\A i \in 1..Len(req.tasks) : req.tasks[i].upstream = "up") =>
                \A t \in {"go", "rust"} :
                    Ranked(req.result.top_technologies, t)
                        = FoundBySucceeded(req.r, req.tasks, Len(req.tasks), t))
    /\ ((req.kind = "request" /\ req.pc = "fetching")
            ~> (req.kind = "request" /\ req.pc = "joined"))

\* search_trends has returned a result with the first source down, the
\* second broken off and the third up.
C14_Witness ==
    /\ Fetched
    /\ req.pc = "done"
    /\ req.r.tool = "search_trends"
    /\ req.tasks[1].upstream = "down"
    /\ req.tasks[2].upstream = "breaks"
    /\ req.tasks[3].upstream = "up"
    /\ Ranked(req.result.top_technologies, "go") > 0

\* Every sub-task of the request failed entirely: its source was down or its
\* library missing (for analyze_reddit also: no Reddit client).
AllFailed ==
    /\ \A i \in 1..Len(req.tasks) : req.tasks[i].upstream \in {"down", "nolib"}
    /\ req.r.tool = "analyze_reddit" \/ req.tasks # <<>>

\* C15: a request whose every source adapter fails entirely completes
\* without a raised error and returns a well-formed result whose
\* top_technologies is the empty list.
C15_AllFailedEmpty ==
    /\ [](req.kind = "request" => req.pc # "failed")
    /\ []((Fetched /\ AllFailed) =>
            /\ req.error = "none"
            /\ req.result.top_technologies = <<>>
            /\ req.result.count = 0
            /\ req.result.status \in {"none", "not_available"})

\* analyze_freelance has returned with both scrapers' sources down.
C15_Witness ==
    /\ Fetched
    /\ req.pc = "done"
    /\ req.r.tool = "analyze_freelance"
    /\ Len(req.tasks) = 2
    /\ \A i \in 1..2 : req.tasks[i].upstream = "down"

\* The freelance sources of the request could not be reached at all: every
\* scraper's source was down or its library missing.
Unreachable == \A i \in 1..Len(req.tasks) : req.tasks[i].upstream \in {"down", "nolib"}

\* C21 as stated: the status of a freelance result is one of ok, partial,
\* not_available and not_implemented; it is not_available when the source
\* could not be reached at all, partial when some technologies were obtained
\* but the average rate could not be computed, and ok otherwise.
C21_Claim ==
    (Fetched /\ req.r.tool = "analyze_freelance") =>
        /\ req.result.status \in {"ok", "partial", "not_available", "not_implemented"}
        /\ req.result.status =
              IF Unreachable THEN "not_available"
              ELSE IF /\ req.result.top_technologies # <<>>
                      /\ RateVals(FreelanceJobs(req.r, req.tasks)) = <<>>
                   THEN "partial"
              ELSE "ok"

\* ------------------------------------------------------ per-day snapshot
\* Two results of search_trends that differ (what the sources report changes
\* from one call to the next).
TrendsResults == {"v1", "zero"}

\* The payload of read_cached_trends when cache.get returns None.
NotFound == "not_found"

\* A snapshot that stores only what the request computed itself (None for a
\* request served from the cache).
SnapshotComputed(cl) == cl.value

\* The value search_trends stores under the per-day key: result, what
\* get_or_fetch_async returned.
SnapshotOf(cl) == cl.ret

\* read_cached_trends: data = cache.get(key); the not_found payload when it is
\* None, else the data.
ReadCachedTrends(st, t, fault) ==
    LET data == CacheGet(cfg, st, DayKey, t, fault)
    IN  IF data = None THEN NotFound ELSE data

\* History of the per-day key: snap is the most recent cache.set of the
\* snapshot (n numbers them, stored: the backend get reads took the payload),
\* read the most recent read_cached_trends (n: the snapshot write it followed).
NoSnapshot ==
    [kind |-> "trends",
     snap |-> [n |-> 0, by |-> "-", value |-> None, t |-> 0, stored |-> FALSE],
     read |-> [n |-> 0, t |-> 0, ret |-> None, fault |-> FALSE]]

\* The server with an empty cache, no search_trends request received.
InitTrends == InitCache /\ store = EmptyStore /\ req = NoSnapshot

\* search_trends enters get_or_fetch_async with the key of its parameters.
TrendsLookup(c, fault) == call[c].pc = "idle" /\ CallStart(c, RequestKey, fault)

\* fetch returns the aggregated result and get_or_fetch_async stores it.
TrendsFetched(c, result, fault) == CallStore(c, result, fault)

\* search_trends, after get_or_fetch_async has returned:
\* cache.set(f"trends:{today}", result, ttl=...); return result.
TrendsSnapshot(c, fault) ==
    /\ req.kind = "trends"
    /\ call[c].pc = "done"
    /\ MayFail(SnapshotOf(call[c]), fault)
    /\ store' = CacheSet(cfg, store, DayKey, SnapshotOf(call[c]), callttl, now,
                         RemoteFault(fault), FileFault(fault))
    /\ call' = [call EXCEPT ![c].pc = "returned"]
    /\ req' = [req EXCEPT !.snap =
                  [n |-> req.snap.n + 1, by |-> c, value |-> SnapshotOf(call[c]), t |-> now,
                   stored |-> SetStored(cfg, SnapshotOf(call[c]), RemoteFault(fault), FileFault(fault))]]
    /\ faults' = Injected(SnapshotOf(call[c]), fault)
    /\ UNCHANGED <<cfg, now, lastw, lastr, wrote, twin, callttl, ops>>

\* A client reads the resource cache://trends/<today>.
ReadTrends(fault) ==
    /\ req.kind = "trends"
    /\ fault => (faults < MaxFaults /\ cfg.enabled)
    /\ req' = [req EXCEPT !.read = [n |-> req.snap.n, t |-> now,
                                    ret |-> ReadCachedTrends(store, now, fault), fault |-> fault]]
    /\ faults' = IF fault THEN faults + 1 ELSE faults
    /\ UNCHANGED <<cfg, now, store, call, lastw, lastr, wrote, twin, callttl, ops>>

NextTrends ==
    \/ Tick
    \/ \E c \in Callers, f \in BOOLEAN : TrendsLookup(c, f)
    \/ \E c \in Callers, v \in TrendsResults, f \in SetFaults : TrendsFetched(c, v, f)
    \/ \E c \in Callers, f \in SetFaults : TrendsSnapshot(c, f)
    \/ \E f \in BOOLEAN : ReadTrends(f)

\* search_trends requests, running concurrently, and reads of the snapshot.
SpecTrends == InitTrends /\ [][NextTrends]_vars

\* The step is the return of the search_trends request of c.
IsTrendsReturn(c) == call[c].pc = "done" /\ call'[c].pc = "returned"

SnapshotFresh == req.snap.stored /\ now <= ExpiresAt(req.snap.t, callttl) * TicksPerSec

MaxRetries == 3

\* retries: int = 3
DefaultRetries == 3

\* base_delay, in units of the default 0.5 s.
BaseDelays == {1, 2}

\* A call of RedditAnalyzer._retry(func, retries=..., base_delay=...) as it
\* enters the loop. plan[k]: the k-th invocation of func returns (TRUE) or
\* raises an Exception (FALSE). attempt is the loop variable, calls the number
\* of invocations, last_exc the invocation whose exception last_exc holds (0:
\* None), slept the delays of the asyncio.sleep calls made, steps the number of
\* steps taken.
NewRetry(retries, base_delay, plan) ==
    [kind |-> "retry", retries |-> retries, base_delay |-> base_delay, plan |-> plan,
     pc |-> "loop", attempt |-> 0, calls |-> 0, last_exc |-> 0, slept |-> <<>>,
     ret |-> 0, error |-> "none", steps |-> 0]

RetryEnter(retries, base_delay, plan) ==
    /\ req = NoReq
    /\ req' = NewRetry(retries, base_delay, plan)
    /\ UNCHANGED cachevars

\* for attempt in range(retries): try: return await asyncio.to_thread(func)
\* except Exception as e: last_exc = e; delay = base_delay * (2 ** attempt)
RetryAttempt ==
    /\ req.kind = "retry"
    /\ req.pc = "loop"
    /\ req.attempt < req.retries
    /\ req' = IF req.plan[req.calls + 1]
              THEN [req EXCEPT !.calls = @ + 1, !.pc = "returned", !.ret = req.calls + 1,
                               !.steps = @ + 1]
              ELSE [req EXCEPT !.calls = @ + 1, !.pc = "sleeping", !.last_exc = req.calls + 1,
                               !.steps = @ + 1]
    /\ UNCHANGED cachevars

\* await asyncio.sleep(delay), and the next iteration.
RetrySleep ==
    /\ req.kind = "retry"
    /\ req.pc = "sleeping"
    /\ req' = [req EXCEPT !.slept = Append(@, req.base_delay * Pow2(req.attempt)),
                          !.attempt = @ + 1, !.pc = "loop", !.steps = @ + 1]
    /\ UNCHANGED cachevars

\* raise last_exc, the loop being over; "raise None" is a TypeError.
RetryRaise ==
    /\ req.kind = "retry"
    /\ req.pc = "loop"
    /\ req.attempt >= req.retries
    /\ req' = [req EXCEPT !.pc = "raised", !.steps = @ + 1,
                          !.error = IF req.last_exc = 0 THEN "TypeError" ELSE "exception"]
    /\ UNCHANGED cachevars

NextRetry ==
    \/ \E retries \in 0..MaxRetries, base_delay \in BaseDelays, plan \in [1..MaxRetries -> BOOLEAN] :
            RetryEnter(retries, base_delay, plan)
    \/ RetryAttempt
    \/ RetrySleep
    \/ RetryRaise

\* The tools' requests and their upstream calls, and calls of _retry.
SpecUpstream == InitRequests /\ [][NextRequests \/ NextRetry]_vars

\* What the claim says of a call of _retry: at most retries invocations; a
\* return is the result of the first invocation that succeeded, none made
\* after it; after the k-th failed invocation a wait of base_delay * 2^(k-1);
\* after the last failed one the last exception is raised; and the call ends
\* within 2 * retries + 1 steps.
RetryBounded ==
    req.kind = "retry" =>
        /\ req.calls <= req.retries
        /\ req.steps <= 2 * req.retries + 1
        /\ Len(req.slept) = (IF req.pc \in {"sleeping", "returned"} THEN req.calls - 1 ELSE req.calls)
        /\ \A k \in 1..Len(req.slept) : req.slept[k] = req.base_delay * Pow2(k - 1)
        /\ \A k \in 1..Len(req.slept) : ~req.plan[k]
        /\ req.pc = "returned" =>
              /\ req.plan[req.calls]
              /\ req.ret = req.calls
        /\ req.pc = "raised" =>
              /\ req.calls = req.retries
              /\ req.retries >= 1 => (req.error = "exception" /\ req.last_exc = req.retries)

\* What the claim says of the upstream calls: one that fails is made again,
\* up to the default number of attempts.
UpstreamRetried ==
    req.kind = "request" =>
        \A i \in 1..Len(req.tasks) :
            (req.tasks[i].state # "pending" /\ req.tasks[i].upstream = "down")
                => req.tasks[i].calls = DefaultRetries

\* C23 as stated: transient upstream calls are retried with a bounded
\* exponential backoff: _retry invokes the call at most retries times, returns
\* the result of the first attempt that succeeds, waits base_delay * 2^attempt
\* after each failed attempt, raises the last exception after the last failed
\* attempt, and never loops forever.
C23_Claim == RetryBounded /\ UpstreamRetried

\* ------------------------------------------------------------ frame of get
\* The step is a write: a set (stand-alone or of a fetch-or-compute call) or
\* an invalidate.
IsWrite == lastw'.n = lastw.n + 1 /\ lastw'.op \in {"set", "invalidate"}

\* C24: get is read-only: a get(key), whether it hits, misses or finds a stale
\* or unreadable entry, leaves every stored entry (the stale one included)
\* unchanged; stored entries change only through set and invalidate.
C24_GetReadOnly ==
    /\ [][(lastr' # lastr \/ \E c \in Callers : call'[c] # call[c] /\ call[c].pc # "fetching")
            => store' = store]_vars
    /\ [][store' # store => IsWrite]_vars

\* A get has returned absent for an entry that has expired, and the entry is
\* still in the cache directory as the set wrote it.
C24_Witness ==
    /\ cfg.enabled /\ ~cfg.redis
    /\ lastr.op = "get" /\ lastr.n = lastw.n /\ ~lastr.fault
    /\ lastr.ret = None
    /\ lastw.op = "set" /\ lastw.stored /\ lastw.key = lastr.key
    /\ store.files[_file_path(lastr.key)] = Payload(lastw.value, ExpiresAt(lastw.t, lastw.ttl), 0)
    /\ Stale(store.files[_file_path(lastr.key)], now)

\* C25 as stated: distinct keys are independent in the file backend: for any
\* two different keys k1 and k2, also keys that differ only in "/", ":" and
\* "_" characters, set(k1, v) leaves the result of get(k2) unchanged.
C25_Claim ==
    [][(IsSet /\ cfg.enabled /\ ~cfg.redis) =>
          \A k2 \in Keys \ {lastw'.key} :
              CacheGet(cfg, store', k2, now, FALSE) = CacheGet(cfg, store, k2, now, FALSE)]_vars

\* The most recent write is the set of a fetch-or-compute call that stored
\* its producer's value, None included.
LastWriteIsProduced == lastw.op = "set" /\ lastw.by # "-" /\ lastw.stored

\* What the claim says of a call for the key of the entry just stored: after
\* a stored None the producer is invoked again; any other value is served
\* from the cache.
NoneIsMissStep(c) ==
    IF lastw.value = None
    THEN /\ call'[c].pc = "fetching"
         /\ call'[c].cached = None
         /\ call'[c].invoked = 1
    ELSE /\ call'[c].pc = "done"
         /\ call'[c].invoked = 0
         /\ call'[c].ret = lastw.value

\* C26 as stated: a produced None is stored, and every later call for the key
\* invokes the producer again, whereas any other produced value (a falsy one
\* included) is served from the cache on later calls within the TTL.
C26_Original ==
    [][\A c \in Callers :
          (/\ cfg.enabled
           /\ LastWriteIsProduced
           /\ IsCallStart(c, lastw.key)
           /\ (lastw.value # None => now < lastw.t + TtlUse(lastw.ttl) * TicksPerSec))
          => NoneIsMissStep(c)]_vars

\* C26, amended: a produced None is stored, and every later call for the key
\* invokes the producer again, whereas any other produced value (a falsy one
\* included) is served from the cache on later calls made no later than the
\* stored expires_at, int(write time + ttl): the sum cut to whole seconds.
C26_NoneIsMiss ==
    /\ [][\A c \in Callers :
            (/\ cfg.enabled
             /\ LastWriteIsProduced
             /\ IsCallStart(c, lastw.key)
             /\ (lastw.value # None => now <= ExpiresAt(lastw.t, lastw.ttl) * TicksPerSec))
            => NoneIsMissStep(c)]_vars
    /\ []((LastWriteIsProduced /\ lastw.value = None) =>
            /\ RawEntry(store, lastw.key).kind = "json"
            /\ RawEntry(store, lastw.key).value = None)

\* One call has produced and stored None, and the next call for the key has
\* invoked its producer again, the entry with the None still fresh.
C26_Witness ==
    /\ cfg.enabled
    /\ LastWriteIsProduced /\ lastw.value = None
    /\ RawEntry(store, lastw.key).kind = "json"
    /\ ~Stale(RawEntry(store, lastw.key), now)
    /\ \E c \in Callers : \E d \in Callers \ {c} :
          /\ lastw.by = c /\ call[c].pc = "done" /\ call[c].setcalls = 1
          /\ call[d].key = call[c].key
          /\ call[d].pc = "fetching" /\ call[d].invoked = 1 /\ ~call[d].racing

\* The step is the producer of the call of c raising.
IsCallRaise(c) == call[c].pc = "fetching" /\ call'[c].pc = "raised"

\* C27: if the producer passed to get_or_fetch or get_or_fetch_async raises,
\* the exception reaches the caller, set is not called, and the stored
\* entries are what they were before the call; a later call for the same key,
\* nothing having been written meanwhile, invokes the producer again.
C27_ProducerRaises ==
    /\ [](\A c \in Callers :
            call[c].pc = "raised" =>
                /\ call[c].ret = Raise
                /\ call[c].invoked = 1
                /\ call[c].setcalls = 0)
    /\ [][\A c \in Callers :
            (IsCallRaise(c) \/ (call'[c] # call[c] /\ call'[c].pc = "fetching"))
                => (store' = store /\ lastw' = lastw /\ wrote' = wrote)]_vars
    /\ [][\A c \in Callers : \A d \in Callers :
            (/\ call[c].pc = "raised"
             /\ lastw.n = 0
             /\ faults = 0
             /\ IsCallStart(d, call[c].key))
            => (/\ call'[d].pc = "fetching"
                /\ call'[d].invoked = 1)]_vars

\* The producer of a call has raised with the cache as the call found it,
\* and a later call for the key has invoked its producer again.
C27_Witness ==
    /\ cfg.enabled
    /\ lastw.n = 0
    /\ store = EmptyStore
    /\ \E c \in Callers : \E d \in Callers \ {c} :
          /\ call[c].pc = "raised" /\ call[c].ret = Raise /\ ~call[c].racing
          /\ call[d].pc = "fetching" /\ call[d].key = call[c].key /\ call[d].invoked = 1

\* ------------------------------------------------------- repeated requests
\* The well-formed requests of the tools that cache their result.
CachedRequests == {r \in Requests : r.tool # "generate_report" /\ Validate(r) = "ok"}

\* The client makes the same request again, later the same day.
Again ==
    /\ req.kind = "request"
    /\ req.pc = "done"
    /\ ~req.first.made
    /\ req' = [NewRequest(req.r, store) EXCEPT
                  !.first = [made |-> TRUE, fetched |-> req.fetched, token |-> Returned(req),
                             t |-> req.set_t,
                             allfailed |-> \A i \in 1..Len(req.tasks) :
                                              req.tasks[i].upstream \in {"down", "nolib"}]]
    /\ UNCHANGED cachevars

\* The clock advances. A request reads it twice, in the get of its lookup
\* and in the set after its fetch; it is advanced here before each of the
\* two.
RequestTick ==
    /\ req.kind = "request"
    /\ req.pc \in {"lookup", "joined"}
    /\ Tick

NextRepeated ==
    \/ RequestTick
    \/ \E r \in CachedRequests : Receive(r)
    \/ CheckArguments
    \/ Lookup
    \/ \E i \in 1..MaxSubTasks : \E upstream \in {"up", "down", "breaks", "nolib"} :
            RunSubTask(i, upstream)
    \/ Join
    \/ Assemble
    \/ Return
    \/ Again

\* A request and, after it, the identical request, as the clock advances.
SpecRepeated == InitRequests /\ [][NextRepeated]_vars

\* The request follows an identical one whose sources all failed and which
\* stored its empty result, and has made its cache lookup.
AfterDegraded ==
    /\ req.kind = "request"
    /\ cfg.enabled
    /\ req.first.made
    /\ req.first.fetched
    /\ req.first.token = EmptyResult
    /\ req.first.allfailed
    /\ req.pc \notin {"received", "lookup"}

\* The request was served the empty result from the cache and ran no
\* sub-task.
ServedDegraded ==
    /\ req.cached = EmptyResult
    /\ req.tasks = <<>>
    /\ req.started = 0
    /\ ~req.fetched
    /\ req.pc = "done" => Returned(req) = EmptyResult

\* C28 as stated: after a request whose sources all failed has stored its
\* empty result, every identical request on the same date within the TTL
\* returns that same empty result without invoking any source adapter.
C28_Original ==
    (AfterDegraded /\ req.lookup_t < req.first.t + TtlUse(callttl) * TicksPerSec)
        => ServedDegraded

\* C28, amended: the same, for every identical request made no later than the
\* stored expires_at, int(write time + ttl): the sum cut to whole seconds.
C28_DegradedCached ==
    (AfterDegraded /\ req.lookup_t <= ExpiresAt(req.first.t, callttl) * TicksPerSec)
        => ServedDegraded

\* search_trends, all three sources down, stored its empty result; the same
\* request, made later, has returned it from the cache with no sub-task run.
C28_Witness ==
    /\ AfterDegraded
    /\ req.r.tool = "search_trends"
    /\ req.lookup_t > req.first.t
    /\ req.pc = "done"
    /\ ServedDegraded

\* --------------------------------------------------------- the event loop
\* The tools are coroutines of one asyncio event loop: between two awaits a
\* coroutine runs alone on the loop's thread. The producers of
\* analyze_freelance and search_trends await threads (asyncio.to_thread) for
\* their upstream calls; fetch_sub of analyze_reddit makes its calls
\* (subreddit.new) on the loop's thread itself.
\*   blocking[c]: the producer of c's call makes its upstream call on the
\*                loop's thread (analyze_reddit with a Reddit client)
\*   hangs[c]:    that upstream call never returns
\*   holder:      the caller whose producer last took the loop's thread
NewLoop(blocking, hangs) ==
    [kind |-> "loop", blocking |-> blocking, hangs |-> hangs, holder |-> "-"]

InitLoop ==
    /\ InitCache
    /\ store = EmptyStore
    /\ callttl = NoTtl
    /\ \E blocking \in [Callers -> BOOLEAN], hangs \in [Callers -> BOOLEAN] :
            req = NewLoop(blocking, hangs)

\* No other coroutine holds the loop's thread in an upstream call.
LoopFreeFor(c) ==
    \A d \in Callers \ {c} : ~(req.holder = d /\ call[d].pc = "fetching")

\* A tool enters get_or_fetch_async: the get, and on a miss the call of fetch.
LoopLookup(c, key, fault) ==
    /\ req.kind = "loop"
    /\ call[c].pc = "idle"
    /\ LoopFreeFor(c)
    /\ CallStart(c, key, fault)

\* fetch_sub starts its upstream call on the loop's thread.
LoopBlock(c) ==
    /\ req.kind = "loop"
    /\ call[c].pc = "fetching"
    /\ req.blocking[c]
    /\ req.holder # c
    /\ LoopFreeFor(c)
    /\ req' = [req EXCEPT !.holder = c]
    /\ UNCHANGED cachevars

\* The producer returns and get_or_fetch_async resumes: set and return.
LoopProduced(c, value, fault) ==
    /\ req.kind = "loop"
    /\ ~req.hangs[c]
    /\ req.blocking[c] => req.holder = c
    /\ LoopFreeFor(c)
    /\ CallStore(c, value, fault)

NextLoop ==
    \/ \E c \in Callers, k \in CallKeys, f \in BOOLEAN : LoopLookup(c, k, f)
    \/ \E c \in Callers : LoopBlock(c)
    \/ \E c \in Callers, v \in ProducerValues, f \in SetFaults : LoopProduced(c, v, f)

SpecLoop == InitLoop /\ [][NextLoop]_vars

\* The event loop runs every coroutine that is ready: a producer that can
\* start its upstream call does, and a call whose producer has returned
\* resumes.
SpecLoopFair ==
    /\ SpecLoop
    /\ \A c \in Callers :
          /\ WF_vars(LoopBlock(c))
          /\ WF_vars(\E v \in ProducerValues, f \in SetFaults : LoopProduced(c, v, f))

\* C29 as stated: under fair scheduling every get_or_fetch_async call whose
\* own producer terminates eventually returns, whatever the other calls do:
\* a producer that never terminates blocks only its own caller.
C29_Claim ==
    \A c \in Callers :
        (req.kind = "loop" /\ call[c].pc = "fetching" /\ ~req.hangs[c]) ~> (call[c].pc = "done")

====
